---- MODULE Spec2Model ----
(***************************************************************************)
(* Math::MetropolisHastings (mcmc.hpp, carried in                          *)
(* src/source/test_polychord.cpp lines 255-803): the blocked               *)
(* Metropolis-Hastings sampler, its stop rule, its chain file and its      *)
(* resume file, with the process that runs it being killed and restarted.  *)
(*                                                                         *)
(* Numbers.  Parameter values are integers.  A likelihood value (the       *)
(* -2 ln L the source handles) is an integer counted in units of 2 ln 2,   *)
(* so that exp(-deltaLike / 2) is the exact power of two 2^(-deltaLike).   *)
(* Prior densities and probabilities are exact fractions <<num, den>>      *)
(* with IEEE-754's special values: <<1, 0>> is +infinity and <<0, 0>> is   *)
(* NaN (every ordered comparison with NaN is false).                       *)
(***************************************************************************)
EXTENDS Integers, Sequences, FiniteSets, TLC

\* ---------------------------------------------------------------- bounds

\* Number of parameters n_: the likelihood of the model is the two-parameter
\* PolyChordFastTestLikelihood (check(nParams == 2)).
NPar == 2
\* Parameter values range over 0..MaxVal; a proposal leaving it is not drawn.
MaxVal == 2
\* std::rand() returns one of 0..RandMax (RAND_MAX of the model).
RandMax == 2
\* Number of times the program is started (run called) in one behaviour.
MaxRuns == 2
\* stop() never stops below this iteration count: 100 in the source
\* (line 427), scaled down to keep the chain files of the model short.
MinChain == 2
\* The chain file is closed and reopened every so many iterations: 1000 in
\* the source (line 770), scaled down likewise.
FlushEvery == 2

\* The integrity marker resumeCode_ set by the constructor.
ResumeCode == 123456

\* enum PRIOR_MODE { UNIFORM_PRIOR = 0, GAUSSIAN_PRIOR, PRIOR_MODE_MAX }
UNIFORM_PRIOR == 0
GAUSSIAN_PRIOR == 1
PRIOR_MODE_MAX == 2

\* std::numeric_limits<double>::max(), the value of a starting value that
\* was not given: the largest number of the model.
DblMax == 2147483647

Idx == 1..NPar
Vals == 0..MaxVal
Vec == [Idx -> Vals]
ZeroVec == [j \in Idx |-> 0]

\* ------------------------------------------------------------------ state

VARIABLES
    pc,                     \* where the process is: "idle" = not running
    mh,                     \* the members of the object that run mutates
    accepted,               \* run's local: acceptance counter per block
    loc,                    \* the locals of one block update of the loop body
    maxChainLength,         \* run's argument
    writeResumeInformation, \* run's argument
    starting_, accuracy_, blocks_,       \* the configuration: the members
    param1_, param2_, priorMods_,        \* that setParam, setParamGauss,
    samplingWidth_, paramNames_,         \* specifyParameterBlocks and
    externalProposal_,                   \* useExternalProposal set
    CHECKS_ON,              \* the build defines CHECKS_ON
    call,                   \* the last configuration call and its arguments
    chainFile,              \* (fileRoot).txt: its rows
    resumeExists,           \* (fileRoot)resume.dat exists
    resumeFile,             \* its cells
    namesFile,              \* (fileRoot).paramnames: its lines
    cannotOpen,             \* the files that cannot be opened for writing
    runs,                   \* how many times run was called
    origin,                 \* how the current run started: resumed or fresh,
                            \* the rows the chain file then had, the state
                            \* of the object, the record it resumed from
    chains,                 \* several processes, each running a chain
    rootFiles,              \* their files, by file root
    mpi,                    \* the CosmoMPI object of each process
    randState,              \* the state of std::rand of a process
    engines,                \* the objects constructed in that process
    matrix                  \* a SymmetricMatrix object and the text file it reads

vars == <<pc, mh, accepted, loc, maxChainLength, writeResumeInformation,
          starting_, accuracy_, blocks_, param1_, param2_, priorMods_,
          samplingWidth_, paramNames_, externalProposal_, CHECKS_ON, call,
          chainFile, resumeExists, resumeFile, namesFile, cannotOpen, runs,
          origin, chains, rootFiles, mpi, randState, engines, matrix>>
config == <<starting_, accuracy_, blocks_, param1_, param2_, priorMods_,
            samplingWidth_, paramNames_, externalProposal_, CHECKS_ON, call,
            cannotOpen, chains, rootFiles, mpi, randState, engines, matrix>>
args == <<maxChainLength, writeResumeInformation>>

\* One process with one object: no other chains, no use of CosmoMPI, of
\* std::rand or of other objects is followed.
Alone ==
    /\ chains = <<>>
    /\ rootFiles = <<>>
    /\ mpi = <<>>
    /\ randState = 0
    /\ engines = <<>>
    /\ matrix = <<>>

\* The three files of a run, and std::ofstream's open of one of them
\* succeeding.
Files == {"chain", "names", "resume"}
CanOpen(f) == f \notin cannotOpen
disk == <<chainFile, resumeExists, resumeFile, namesFile>>

\* ------------------------------------------------------------- fractions

RECURSIVE GCD(_, _)
GCD(a, b) == IF b = 0 THEN a ELSE GCD(b, a % b)

\* <<n, d>> in lowest terms, n >= 0, d >= 0; n/0 is +infinity, 0/0 is NaN.
Frac(n, d) ==
    IF d = 0 THEN (IF n = 0 THEN <<0, 0>> ELSE <<1, 0>>)
    ELSE IF n = 0 THEN <<0, 1>>
    ELSE <<n \div GCD(n, d), d \div GCD(n, d)>>

NaN == <<0, 0>>
IsNaN(a) == a = NaN
One == <<1, 1>>
Zero == <<0, 1>>

FMul(a, b) == Frac(a[1] * b[1], a[2] * b[2])
FDiv(a, b) == Frac(a[1] * b[2], a[2] * b[1])
\* a <= b and a > b of doubles: false when either is NaN.
FLeq(a, b) == ~IsNaN(a) /\ ~IsNaN(b) /\ a[1] * b[2] <= b[1] * a[2]
FGt(a, b) == ~IsNaN(a) /\ ~IsNaN(b) /\ a[1] * b[2] > b[1] * a[2]

RECURSIVE Pow2(_)
Pow2(k) == IF k = 0 THEN 1 ELSE 2 * Pow2(k - 1)

\* std::exp(-deltaLike / 2.0), deltaLike in units of 2 ln 2.
ExpHalfNeg(deltaLike) ==
    IF deltaLike >= 0 THEN Frac(1, Pow2(deltaLike)) ELSE Frac(Pow2(-deltaLike), 1)

\* ------------------------------------------------- likelihood and priors

\* PolyChordFastTestLikelihood::calculate with x0 = y0 = 0, sigmaX = sigmaY = 1.
LikeCalculate(v) == v[1] * v[1] + v[2] * v[2]

\* The macro check(condition, message) of macros.hpp: the execution goes on
\* when the condition holds, and ends in a fatal error when it does not.
check(condition) == condition

uniformPrior(min, max, x) ==
    IF x >= min /\ x <= max THEN Frac(1, max - min) ELSE Zero

\* The product of calculatePrior() over the parameters 1..i.  A parameter
\* whose mode is not UNIFORM_PRIOR leaves the product as it is: the default
\* case of the switch.  (No run of the model has a parameter of mode
\* GAUSSIAN_PRIOR, whose density is not a fraction.)
RECURSIVE PriorProduct(_, _)
PriorProduct(v, i) ==
    IF i = 0 THEN One
    ELSE IF priorMods_[i] = UNIFORM_PRIOR
         THEN FMul(PriorProduct(v, i - 1), uniformPrior(param1_[i], param2_[i], v[i]))
         ELSE PriorProduct(v, i - 1)

\* calculatePrior() at the vector v (built-in priors, externalPrior_ NULL).
calculatePrior(v) == PriorProduct(v, NPar)

\* Every check that calculatePrior() comes to passes: check(max > min) of
\* uniformPrior, and no parameter reaches check(false, "invalid prior mode").
calculatePriorPasses ==
    \A i \in Idx :
        /\ check(priorMods_[i] \in {UNIFORM_PRIOR, GAUSSIAN_PRIOR})
        /\ priorMods_[i] = UNIFORM_PRIOR => check(param2_[i] > param1_[i])

\* ------------------------------------------------------------- stop rule

\* stdMean < accuracy_[i] in the place of stdMean > accuracy_[i].
ExceedsAccuracyBelow(n, S, Q, C, acc) ==
    LET V == n * Q - S * S
        K == n * C - S * S
        m == IF V > 0 /\ K < V /\ K > -V
             THEN <<V * (V + K), n * n * n * (V - K)>>
             ELSE <<V, n * n * n>>
    IN  m[1] * acc[2] * acc[2] < acc[1] * acc[1] * m[2]

\* StdMeanSq without the factor (1 + cor) / (1 - cor).
StdMeanSqPlain(n, S, Q, C) == <<n * Q - S * S, n * n * n>>

\* The square of stdMean of stop() for one parameter, as <<num, den>> with
\* den > 0, from the running sums S = paramSum_[i], Q = paramSquaredSum_[i],
\* C = corSum_[i] and n = iteration_ > 0.  With V = n*Q - S*S and
\* K = n*C - S*S: stdev^2 = meanSq - mean*mean = V / n^2,
\* (stdev / sqrt(n))^2 = V / n^3 and cor = K / V, which is NaN or infinite
\* when V = 0 and then fails cor < 1 && cor > -1.
StdMeanSq(n, S, Q, C) ==
    LET V == n * Q - S * S
        K == n * C - S * S
    IN  IF V > 0 /\ K < V /\ K > -V
        THEN <<V * (V + K), n * n * n * (V - K)>>
        ELSE <<V, n * n * n>>

\* stdMean > accuracy_[i], both non-negative, compared by their squares.
ExceedsAccuracy(n, S, Q, C, acc) ==
    LET m == StdMeanSq(n, S, Q, C)
    IN  m[1] * acc[2] * acc[2] > acc[1] * acc[1] * m[2]

\* stop with the test of maxChainLength_ before the test of MinChain.
stopChecksLengthFirst(it, maxLen, sum, sqSum, cSum, acc) ==
    IF it >= maxLen THEN TRUE
    ELSE IF it < MinChain THEN FALSE
    ELSE \A i \in Idx : ~ExceedsAccuracy(it, sum[i], sqSum[i], cSum[i], acc[i])

\* bool stop() const
stop(it, maxLen, sum, sqSum, cSum, acc) ==
    IF it < MinChain THEN FALSE
    ELSE IF it >= maxLen THEN TRUE
    ELSE \A i \in Idx : ~ExceedsAccuracy(it, sum[i], sqSum[i], cSum[i], acc[i])

\* ----------------------------------------------------------- resume file

\* The four bytes of an int in memory (little-endian) and back.
IntToBytes(x) ==
    <<x % 256, (x \div 256) % 256, (x \div 65536) % 256, (x \div 16777216) % 256>>
BytesToInt(b) == b[1] + 256 * b[2] + 65536 * b[3] + 16777216 * b[4]

VecCells(v) == [j \in 1..NPar |-> v[j]]

\* Number of cells of the record: four scalars, five arrays, four marker bytes.
RecLen == 4 + 5 * NPar + 4

\* writeResumeInfo writing paramSquaredSum_ before paramSum_.
ResumeRecordSumsSwapped(s) ==
    <<s.maxChainLength_, s.iteration_, s.currentLike_, s.currentPrior_>>
        \o VecCells(s.current_) \o VecCells(s.prev_) \o VecCells(s.paramSquaredSum_)
        \o VecCells(s.paramSum_) \o VecCells(s.corSum_)
        \o IntToBytes(ResumeCode)

\* What writeResumeInfo writes: one cell per 8-byte value, in the order of
\* its out.write calls, then the four bytes of resumeCode_.
ResumeRecord(s) ==
    <<s.maxChainLength_, s.iteration_, s.currentLike_, s.currentPrior_>>
        \o VecCells(s.current_) \o VecCells(s.prev_) \o VecCells(s.paramSum_)
        \o VecCells(s.paramSquaredSum_) \o VecCells(s.corSum_)
        \o IntToBytes(ResumeCode)

\* in.read into a field: the cell at position k when the file has one, else
\* the read fails and the field keeps the value old.
ReadCell(file, k, old) == IF k <= Len(file) THEN file[k] ELSE old
ReadArr(file, off, old) == [j \in Idx |-> ReadCell(file, off + j, old[j])]

\* readResumeInfo without the comparison of the marker.
readResumeInfoNoMarker(s, exists, file) ==
    IF ~exists THEN [ok |-> FALSE, st |-> s]
    ELSE [ok |-> TRUE,
          st |-> [maxChainLength_ |-> ReadCell(file, 1, s.maxChainLength_),
                  iteration_      |-> ReadCell(file, 2, s.iteration_),
                  currentLike_    |-> ReadCell(file, 3, s.currentLike_),
                  currentPrior_   |-> ReadCell(file, 4, s.currentPrior_),
                  current_        |-> ReadArr(file, 4, s.current_),
                  prev_           |-> ReadArr(file, 4 + NPar, s.prev_),
                  paramSum_       |-> ReadArr(file, 4 + 2 * NPar, s.paramSum_),
                  paramSquaredSum_ |-> ReadArr(file, 4 + 3 * NPar, s.paramSquaredSum_),
                  corSum_         |-> ReadArr(file, 4 + 4 * NPar, s.corSum_)]]

\* readResumeInfo reading paramSquaredSum_ before paramSum_.
readResumeInfoSumsSwapped(s, exists, file) ==
    IF ~exists THEN [ok |-> FALSE, st |-> s]
    ELSE LET code == BytesToInt([b \in 1..4 |-> ReadCell(file, 4 + 5 * NPar + b, 0)])
         IN  [ok |-> (code = ResumeCode),
              st |-> [maxChainLength_ |-> ReadCell(file, 1, s.maxChainLength_),
                      iteration_      |-> ReadCell(file, 2, s.iteration_),
                      currentLike_    |-> ReadCell(file, 3, s.currentLike_),
                      currentPrior_   |-> ReadCell(file, 4, s.currentPrior_),
                      current_        |-> ReadArr(file, 4, s.current_),
                      prev_           |-> ReadArr(file, 4 + NPar, s.prev_),
                      paramSquaredSum_ |-> ReadArr(file, 4 + 2 * NPar, s.paramSquaredSum_),
                      paramSum_       |-> ReadArr(file, 4 + 3 * NPar, s.paramSum_),
                      corSum_         |-> ReadArr(file, 4 + 4 * NPar, s.corSum_)]]

\* readResumeInfo testing the state of the stream in place of the marker.
readResumeInfoChecksStream(s, exists, file) ==
    IF ~exists THEN [ok |-> FALSE, st |-> s]
    ELSE [ok |-> (Len(file) >= RecLen),
          st |-> [maxChainLength_ |-> ReadCell(file, 1, s.maxChainLength_),
                  iteration_      |-> ReadCell(file, 2, s.iteration_),
                  currentLike_    |-> ReadCell(file, 3, s.currentLike_),
                  currentPrior_   |-> ReadCell(file, 4, s.currentPrior_),
                  current_        |-> ReadArr(file, 4, s.current_),
                  prev_           |-> ReadArr(file, 4 + NPar, s.prev_),
                  paramSum_       |-> ReadArr(file, 4 + 2 * NPar, s.paramSum_),
                  paramSquaredSum_ |-> ReadArr(file, 4 + 3 * NPar, s.paramSquaredSum_),
                  corSum_         |-> ReadArr(file, 4 + 4 * NPar, s.corSum_)]]

\* bool readResumeInfo(): the fields after the reads, and the result.  The
\* reads land in the members themselves; code starts as 0.
readResumeInfo(s, exists, file) ==
    IF ~exists THEN [ok |-> FALSE, st |-> s]
    ELSE LET code == BytesToInt([b \in 1..4 |-> ReadCell(file, 4 + 5 * NPar + b, 0)])
         IN  [ok |-> (code = ResumeCode),
              st |-> [maxChainLength_ |-> ReadCell(file, 1, s.maxChainLength_),
                      iteration_      |-> ReadCell(file, 2, s.iteration_),
                      currentLike_    |-> ReadCell(file, 3, s.currentLike_),
                      currentPrior_   |-> ReadCell(file, 4, s.currentPrior_),
                      current_        |-> ReadArr(file, 4, s.current_),
                      prev_           |-> ReadArr(file, 4 + NPar, s.prev_),
                      paramSum_       |-> ReadArr(file, 4 + 2 * NPar, s.paramSum_),
                      paramSquaredSum_ |-> ReadArr(file, 4 + 3 * NPar, s.paramSquaredSum_),
                      corSum_         |-> ReadArr(file, 4 + 4 * NPar, s.corSum_)]]

\* The else branch of run (lines 686-699): every member it assigns, in the
\* object s as readResumeInfo left it.
FreshState(s, maxLen, start) ==
    [s EXCEPT !.maxChainLength_ = maxLen,
              !.current_ = start,
              !.currentLike_ = LikeCalculate(start),
              !.currentPrior_ = calculatePrior(start),
              !.prev_ = start,
              !.iteration_ = 0,
              !.paramSum_ = ZeroVec,
              !.paramSquaredSum_ = ZeroVec,
              !.corSum_ = ZeroVec]

\* void openOut(bool append): the content of the chain file after the open.
\* openOut that opens for appending whatever append is.
openOutAppends(append, file) == file
\* openOut that empties the file whatever append is.
openOutTruncates(append, file) == <<>>

openOut(append, file) == IF append THEN file ELSE <<>>

\* update() without prev_ = current_.
updateKeepsPrev(s) ==
    [s EXCEPT !.paramSum_ = [i \in Idx |-> s.paramSum_[i] + s.current_[i]],
              !.paramSquaredSum_ = [i \in Idx |-> s.paramSquaredSum_[i] + s.current_[i] * s.current_[i]],
              !.corSum_ = [i \in Idx |-> s.corSum_[i] + s.current_[i] * s.prev_[i]]]

\* void update(): the three running sums after the sweep.
update(s) ==
    [s EXCEPT !.paramSum_ = [i \in Idx |-> s.paramSum_[i] + s.current_[i]],
              !.paramSquaredSum_ = [i \in Idx |-> s.paramSquaredSum_[i] + s.current_[i] * s.current_[i]],
              !.corSum_ = [i \in Idx |-> s.corSum_[i] + s.current_[i] * s.prev_[i]],
              !.prev_ = s.current_]

\* The row with the likelihood value before the count.
ChainRowLikeFirst(like, cur) == <<like, 1, cur>>

\* writeChainElement(): the row appended to the chain file.
ChainRow(like, cur) == <<1, like, cur>>

\* ---------------------------------------------------------- block update

\* The indices of block i: blockBegin + 1 .. blockEnd (1-based), blocks_[i]
\* being the index following the end of block i.
BlockIdx(blocks, i) == ((IF i = 1 THEN 0 ELSE blocks[i - 1]) + 1)..blocks[i]

\* generateNewPoint(j) = current_[j] + generator_->generate() * samplingWidth_[j]
\* with samplingWidth_[j] = 1 and the normal draw one of Steps.
Steps == {-1, 1}

\* The candidates made from the vector the sweep started with (prev_ holds
\* it during the sweep) instead of cur.
CandidatesFromSweepStart(cur, blocks, i) ==
    {c \in Vec : \A j \in Idx :
        IF j \in BlockIdx(blocks, i) THEN c[j] - mh.prev_[j] \in Steps
                                     ELSE c[j] = mh.prev_[j]}

\* Lines 712-724: current_ with the block's components replaced by the
\* proposed ones; every vector the built-in proposal can produce.
Candidates(cur, blocks, i) ==
    {c \in Vec : \A j \in Idx :
        IF j \in BlockIdx(blocks, i) THEN c[j] - cur[j] \in Steps ELSE c[j] = cur[j]}

\* externalProposal_ when useExternalProposal was not called.
NULL == "NULL"

\* A ProposalFunctionBase of the caller's: it proposes the steps of Steps,
\* a step up with probability 2/3 and a step down with probability 1/3 in
\* block 1, and either with probability 1/2 in every other block.
Drift == "Drift"

\* bool isSymmetric(int i) of the plug-in ext.
isSymmetric(ext, i) == i # 1

\* double calculate(params, nPar, blockParams, i) of the plug-in ext: the
\* density of proposing, from the vector params, the values that the
\* vector blockParams has in the indices of block i.
ProposalCalculate(ext, params, blockParams, blocks, i) ==
    LET up == IF isSymmetric(ext, i) THEN <<1, 2>> ELSE <<2, 3>>
        down == IF isSymmetric(ext, i) THEN <<1, 2>> ELSE <<1, 3>>
        F[j \in 0..NPar] ==
            IF j = 0 THEN One
            ELSE IF j \in BlockIdx(blocks, i)
                 THEN FMul(F[j - 1], IF blockParams[j] > params[j] THEN up ELSE down)
                 ELSE F[j - 1]
    IN  F[NPar]

\* The two calls of calculate with their arguments exchanged.
ProposalValuesSwapped(ext, old, new, blocks, i) ==
    IF ext # NULL /\ ~isSymmetric(ext, i)
    THEN <<ProposalCalculate(ext, old, new, blocks, i),
           ProposalCalculate(ext, new, old, blocks, i)>>
    ELSE <<>>

\* Lines 734-742: the values of the two calls of calculate, in the order of
\* the calls, for the move of block i from the vector old to the vector
\* new: calculate(current_, oldBlock) and calculate(currentOld, block).
\* None when no plug-in is set or the plug-in is symmetric in block i.
ProposalValues(ext, old, new, blocks, i) ==
    IF ext # NULL /\ ~isSymmetric(ext, i)
    THEN <<ProposalCalculate(ext, new, old, blocks, i),
           ProposalCalculate(ext, old, new, blocks, i)>>
    ELSE <<>>

\* Lines 730-744: p = newPrior / currentPrior_ times exp(-deltaLike / 2),
\* times the first and divided by the second of the plug-in's values when
\* there are any, and set to 1 when p > 1.
AcceptanceP(newPrior, curPrior, newLike, oldLike, corr) ==
    LET p0 == FMul(FDiv(newPrior, curPrior), ExpHalfNeg(newLike - oldLike))
        p == IF corr = <<>> THEN p0 ELSE FDiv(FMul(p0, corr[1]), corr[2])
    IN  IF FGt(p, One) THEN One ELSE p

\* Lines 746-747: q = ((double) r) / RAND_MAX.
UniformDraw(r) == Frac(r, RandMax)

\* if(q < p)
AcceptsStrict(q, p) == ~IsNaN(q) /\ ~IsNaN(p) /\ q[1] * p[2] < p[1] * q[2]

\* Line 749: if(q <= p)
Accepts(q, p) == FLeq(q, p)

\* The object after the constructor (line 318): the vectors are zero-filled;
\* the four scalars are not initialised, and run assigns each of them before
\* anything reads it.
Constructed ==
    [maxChainLength_ |-> 0, iteration_ |-> 0, currentLike_ |-> 0,
     currentPrior_ |-> Zero, current_ |-> ZeroVec, prev_ |-> ZeroVec,
     paramSum_ |-> ZeroVec, paramSquaredSum_ |-> ZeroVec, corSum_ |-> ZeroVec]

NoLoc == [i |-> 0, currentOld |-> ZeroVec, oldLike |-> 0, newPrior |-> Zero,
          corr |-> <<>>, p |-> Zero, q |-> Zero]
NoOrigin == [resumed |-> FALSE, rows |-> 0, st |-> Constructed, rec |-> <<>>]
NoAccepted == [b \in 1..Len(blocks_) |-> 0]

\* The configurations run is started with: the starting vector (configuration
\* 2 starts outside the priors' range), the partition into blocks (the
\* default, one block per parameter, or a single block) and accuracy_[i], a
\* fraction, the same for every parameter.
Configs ==
    {[starting |-> [j \in Idx |-> 0], blocks |-> [b \in 1..NPar |-> b], accuracy |-> <<1, 4>>],
     [starting |-> [j \in Idx |-> IF j = 1 THEN MaxVal ELSE 1],
      blocks |-> [b \in 1..NPar |-> b], accuracy |-> <<1, 4>>],
     [starting |-> [j \in Idx |-> 1], blocks |-> <<NPar>>, accuracy |-> <<1, 1>>]}

\* The maxChainLength arguments of run: below and above MinChain.
ChainLengths == {MinChain - 1, MinChain + 1}

paramNames == [j \in 1..NPar |-> j]

\* No configuration call has been made yet.
NoCall == [op |-> "none"]

\* The object configured as c: every parameter set by setParam with the
\* uniform prior on [0, 1] (the value MaxVal lies outside it), sampling
\* width 1 and its name.
Configured(c) ==
    /\ starting_ = c.starting
    /\ blocks_ = c.blocks
    /\ accuracy_ = [j \in Idx |-> c.accuracy]
    /\ param1_ = [j \in Idx |-> 0]
    /\ param2_ = [j \in Idx |-> 1]
    /\ priorMods_ = [j \in Idx |-> UNIFORM_PRIOR]
    /\ samplingWidth_ = [j \in Idx |-> One]
    /\ paramNames_ = paramNames
    /\ CHECKS_ON = FALSE
    /\ call = NoCall
    /\ cannotOpen = {}
    /\ Alone

\* Lines 672-675: the lines of the paramnames file, the name twice on each.
ParamNamesLines(names) == [j \in Idx |-> <<names[j], names[j]>>]

Init ==
    /\ pc = "idle"
    /\ mh = Constructed
    /\ \E c \in Configs : Configured(c)
    /\ externalProposal_ = NULL
    /\ accepted = NoAccepted
    /\ loc = NoLoc
    /\ maxChainLength = 0
    /\ writeResumeInformation = FALSE
    /\ chainFile = <<>>
    /\ resumeExists = FALSE
    /\ resumeFile = <<>>
    /\ namesFile = <<>>
    /\ runs = 0
    /\ origin = NoOrigin

\* ---------------------------------------------------------------- actions

\* run(M, w) without lines 657-675: the paramnames file is left as it is.
RunStartKeepsNames(M, w) ==
    /\ pc = "idle"
    /\ runs < MaxRuns
    /\ runs' = runs + 1
    /\ IF check(M > 0) /\ check(blocks_ # <<>>) /\ CanOpen("names")
       THEN /\ maxChainLength' = M
            /\ writeResumeInformation' = w
            /\ pc' = "resume"
       ELSE /\ pc' = "fatal"
            /\ UNCHANGED args
    /\ UNCHANGED <<mh, accepted, loc, config, chainFile, resumeExists, resumeFile,
                   namesFile, origin>>

\* run(M, w) is called: lines 654-675, the two checks, then the paramnames
\* file is opened, which throws when it cannot be, and
\* file is written.
RunStart(M, w) ==
    /\ pc = "idle"
    /\ runs < MaxRuns
    /\ runs' = runs + 1
    /\ IF check(M > 0) /\ check(blocks_ # <<>>) /\ CanOpen("names")
       THEN /\ maxChainLength' = M
            /\ writeResumeInformation' = w
            /\ namesFile' = ParamNamesLines(paramNames_)
            /\ pc' = "resume"
       ELSE /\ pc' = "fatal"
            /\ UNCHANGED <<args, namesFile>>
    /\ UNCHANGED <<mh, accepted, loc, config, chainFile, resumeExists, resumeFile, origin>>

\* ReadResume with an openOut that does not test the stream.
ReadResumeOpensBlind ==
    /\ pc = "resume"
    /\ LET r == readResumeInfo(mh, resumeExists, resumeFile)
       IN  IF r.ok \/ calculatePriorPasses
           THEN /\ mh' = IF r.ok THEN r.st
                               ELSE FreshState(r.st, maxChainLength, starting_)
                /\ chainFile' = openOut(r.ok, chainFile)
                /\ origin' = [resumed |-> r.ok, rows |-> Len(chainFile'), st |-> mh',
                              rec |-> IF r.ok THEN resumeFile ELSE <<>>]
                /\ pc' = "loop"
           ELSE /\ mh' = Constructed
                /\ pc' = "fatal"
                /\ UNCHANGED <<chainFile, origin>>
    /\ accepted' = NoAccepted
    /\ UNCHANGED <<loc, args, config, resumeExists, resumeFile, namesFile, runs>>

\* Lines 677-704: resume from the resume file, or start from scratch.
\* A fatal error, and the exception of openOut when the chain file cannot
\* be opened, end the run with the process, as Kill does.
ReadResume ==
    /\ pc = "resume"
    /\ LET r == readResumeInfo(mh, resumeExists, resumeFile)
       IN  IF (r.ok \/ calculatePriorPasses) /\ CanOpen("chain")
           THEN /\ mh' = IF r.ok THEN r.st
                               ELSE FreshState(r.st, maxChainLength, starting_)
                /\ chainFile' = openOut(r.ok, chainFile)
                /\ origin' = [resumed |-> r.ok, rows |-> Len(chainFile'), st |-> mh',
                              rec |-> IF r.ok THEN resumeFile ELSE <<>>]
                /\ pc' = "loop"
           ELSE /\ mh' = Constructed
                /\ pc' = "fatal"
                /\ UNCHANGED <<chainFile, origin>>
    /\ accepted' = NoAccepted
    /\ UNCHANGED <<loc, args, config, resumeExists, resumeFile, namesFile, runs>>

\* Line 705: while(!stop()); lines 783-797 when it stops.
StopCheck ==
    /\ pc = "loop"
    /\ IF stop(mh.iteration_, mh.maxChainLength_, mh.paramSum_,
               mh.paramSquaredSum_, mh.corSum_, accuracy_)
       THEN pc' = "done" /\ loc' = loc
       ELSE pc' = "propose" /\ loc' = [NoLoc EXCEPT !.i = 1]
    /\ UNCHANGED <<mh, accepted, args, config, disk, runs, origin>>

\* Lines 710-747 for block loc.i: the candidate c is put into current_, the
\* likelihood and the prior are evaluated there, p and q are computed.
Propose(c, r) ==
    /\ pc = "propose"
    /\ c \in Candidates(mh.current_, blocks_, loc.i)
    /\ IF calculatePriorPasses
       THEN LET newLike == LikeCalculate(c)
                newPrior == calculatePrior(c)
                corr == ProposalValues(externalProposal_, mh.current_, c, blocks_, loc.i)
            IN  /\ loc' = [i |-> loc.i, currentOld |-> mh.current_,
                           oldLike |-> mh.currentLike_, newPrior |-> newPrior,
                           corr |-> corr,
                           p |-> AcceptanceP(newPrior, mh.currentPrior_, newLike,
                                             mh.currentLike_, corr),
                           q |-> UniformDraw(r)]
                /\ mh' = [mh EXCEPT !.current_ = c, !.currentLike_ = newLike]
                /\ pc' = "decide"
                /\ UNCHANGED <<accepted, origin>>
       ELSE /\ r = 0
            /\ mh' = Constructed
            /\ loc' = NoLoc
            /\ accepted' = NoAccepted
            /\ origin' = NoOrigin
            /\ pc' = "fatal"
    /\ UNCHANGED <<args, config, disk, runs>>

\* Lines 749-758 without the restoring of currentLike_ on rejection.
DecisionKeepsLike(s, acc, l) ==
    IF Accepts(l.q, l.p)
    THEN [st |-> [s EXCEPT !.currentPrior_ = l.newPrior],
          accepted |-> [acc EXCEPT ![l.i] = @ + 1]]
    ELSE [st |-> [s EXCEPT !.current_ = l.currentOld],
          accepted |-> acc]

\* Lines 749-758 without the assignment of currentPrior_ on acceptance.
DecisionKeepsPrior(s, acc, l) ==
    IF Accepts(l.q, l.p)
    THEN [st |-> s,
          accepted |-> [acc EXCEPT ![l.i] = @ + 1]]
    ELSE [st |-> [s EXCEPT !.current_ = l.currentOld, !.currentLike_ = l.oldLike],
          accepted |-> acc]

\* The object and the counters after lines 749-758.
Decision(s, acc, l) ==
    IF Accepts(l.q, l.p)
    THEN [st |-> [s EXCEPT !.currentPrior_ = l.newPrior],
          accepted |-> [acc EXCEPT ![l.i] = @ + 1]]
    ELSE [st |-> [s EXCEPT !.current_ = l.currentOld, !.currentLike_ = l.oldLike],
          accepted |-> acc]

\* Lines 749-760: accept or reject, then on to the next block.
Decide ==
    /\ pc = "decide"
    /\ LET d == Decision(mh, accepted, loc)
       IN  mh' = d.st /\ accepted' = d.accepted
    /\ IF loc.i < Len(blocks_)
       THEN pc' = "propose" /\ loc' = [NoLoc EXCEPT !.i = loc.i + 1]
       ELSE pc' = "row" /\ loc' = NoLoc
    /\ UNCHANGED <<args, config, disk, runs, origin>>

\* Lines 770-774: every FlushEvery iterations the chain file is closed and
\* reopened for appending.
Reopen(it, file) == IF it % FlushEvery = 0 THEN openOut(TRUE, file) ELSE file

\* Lines 763-774 without the call of writeResumeInfo.
EndSweepNeverSaves ==
    /\ pc = "row"
    /\ mh' = update([mh EXCEPT !.iteration_ = @ + 1])
    /\ chainFile' = Reopen(mh'.iteration_,
                           Append(chainFile, ChainRow(mh.currentLike_, mh.current_)))
    /\ pc' = "loop"
    /\ UNCHANGED <<accepted, loc, args, config, resumeExists, resumeFile, namesFile, runs, origin>>

\* Lines 763-765: the row is written, the iteration counted, the sums updated.
EndSweep ==
    /\ pc = "row"
    /\ mh' = update([mh EXCEPT !.iteration_ = @ + 1])
    /\ IF writeResumeInformation
       THEN /\ chainFile' = Append(chainFile, ChainRow(mh.currentLike_, mh.current_))
            /\ pc' = "save"
       ELSE /\ chainFile' = Reopen(mh'.iteration_,
                                   Append(chainFile, ChainRow(mh.currentLike_, mh.current_)))
            /\ pc' = "loop"
    /\ UNCHANGED <<accepted, loc, args, config, resumeExists, resumeFile, namesFile, runs, origin>>

\* SaveOpen with a fatal error when the resume file cannot be opened.
SaveOpenOrFatal ==
    /\ pc = "save"
    /\ IF CanOpen("resume")
       THEN /\ resumeExists' = TRUE
            /\ resumeFile' = <<>>
            /\ pc' = "saving"
       ELSE /\ pc' = "fatal"
            /\ UNCHANGED <<resumeExists, resumeFile>>
    /\ UNCHANGED <<mh, accepted, loc, args, config, chainFile, namesFile, runs, origin>>

\* writeResumeInfo, line 503: the file is opened for writing, which empties it.
\* Lines 504-505: when it cannot be opened writeResumeInfo returns, and run
\* goes on with lines 770-774.
SaveOpen ==
    /\ pc = "save"
    /\ IF CanOpen("resume")
       THEN /\ resumeExists' = TRUE
            /\ resumeFile' = <<>>
            /\ pc' = "saving"
            /\ UNCHANGED chainFile
       ELSE /\ chainFile' = Reopen(mh.iteration_, chainFile)
            /\ pc' = "loop"
            /\ UNCHANGED <<resumeExists, resumeFile>>
    /\ UNCHANGED <<mh, accepted, loc, args, config, namesFile, runs, origin>>

\* writeResumeInfo, lines 507-519: the record is written and the file closed.
SaveClose ==
    /\ pc = "saving"
    /\ resumeFile' = ResumeRecord(mh)
    /\ chainFile' = Reopen(mh.iteration_, chainFile)
    /\ pc' = "loop"
    /\ UNCHANGED <<mh, accepted, loc, args, config, resumeExists, namesFile, runs, origin>>

\* How much of the record is on disk when the process dies inside
\* writeResumeInfo: nothing, part of the scalars, everything but the marker,
\* everything but the marker's last byte.
SavePrefixes == {0, 2, RecLen - 4, RecLen - 1}

\* The process ends (run returned) or is killed, at any point of run; the
\* files stay as they are, the next process constructs a new object.
Kill(k) ==
    /\ pc # "idle"
    /\ IF pc = "saving"
       THEN resumeFile' = SubSeq(ResumeRecord(mh), 1, k)
       ELSE k = 0 /\ resumeFile' = resumeFile
    /\ pc' = "idle"
    /\ mh' = Constructed
    /\ accepted' = NoAccepted
    /\ loc' = NoLoc
    /\ origin' = NoOrigin
    /\ maxChainLength' = 0
    /\ writeResumeInformation' = FALSE
    /\ UNCHANGED <<config, chainFile, resumeExists, namesFile, runs>>

Next ==
    \/ \E M \in ChainLengths, w \in BOOLEAN : RunStart(M, w)
    \/ ReadResume
    \/ StopCheck
    \/ \E c \in Vec, r \in 0..RandMax : Propose(c, r)
    \/ Decide
    \/ EndSweep
    \/ SaveOpen
    \/ SaveClose
    \/ \E k \in SavePrefixes : Kill(k)

Spec == Init /\ [][Next]_vars

\* A step of run: the execution of run goes on by itself once run is called.
RunStep ==
    \/ ReadResume
    \/ StopCheck
    \/ \E c \in Vec, r \in 0..RandMax : Propose(c, r)
    \/ Decide
    \/ EndSweep
    \/ SaveOpen
    \/ SaveClose

\* The runs that nothing interrupts: every called run goes on executing,
\* every call it makes (likelihood, prior, proposal, file output) returns.
NextLive ==
    \/ \E M \in ChainLengths, w \in BOOLEAN : RunStart(M, w)
    \/ RunStep

SpecLive == Init /\ [][NextLive]_vars /\ WF_vars(RunStep)

\* ------------------------------------------- runs over resume files found

\* The object at the first sweep boundary of a chain started at start with
\* maxChainLength m whose first sweep ended at the vector v.
AfterFirstSweep(m, start, v) ==
    update([FreshState(Constructed, m, start) EXCEPT
                !.iteration_ = 1, !.current_ = v,
                !.currentLike_ = LikeCalculate(v), !.currentPrior_ = calculatePrior(v)])

\* Resume files a run may find where it looks for one: the record of s cut
\* after any number of cells, complete, complete with another marker, and
\* complete with a cell following the marker.
FilesFrom(s) ==
    {SubSeq(ResumeRecord(s), 1, k) : k \in 0..RecLen}
        \cup {SubSeq(ResumeRecord(s), 1, RecLen - 4) \o IntToBytes(ResumeCode + 1),
              ResumeRecord(s) \o <<0>>}

\* The program is started once, over a chain file of one row and a resume
\* file that is absent or one of FilesFrom.
InitFiles ==
    /\ pc = "idle"
    /\ mh = Constructed
    /\ \E c \in Configs : Configured(c)
    /\ externalProposal_ = NULL
    /\ accepted = NoAccepted
    /\ loc = NoLoc
    /\ maxChainLength = 0
    /\ writeResumeInformation = FALSE
    /\ chainFile = <<ChainRow(LikeCalculate(starting_), starting_)>>
    /\ \/ resumeExists = FALSE /\ resumeFile = <<>>
       \/ /\ resumeExists = TRUE
          /\ \E m \in ChainLengths :
                resumeFile \in FilesFrom(AfterFirstSweep(m, starting_, starting_))
    /\ namesFile = <<>>
    /\ runs = MaxRuns - 1
    /\ origin = NoOrigin

SpecFiles == InitFiles /\ [][Next]_vars

\* ------------------------------------------------ runs with a plug-in set

\* The program is started once, from a vector inside the priors, with the
\* built-in proposal or with the plug-in Drift.
InitProposal ==
    /\ pc = "idle"
    /\ mh = Constructed
    /\ \E c \in Configs : Configured(c) /\ calculatePrior(c.starting) # Zero
    /\ externalProposal_ \in {NULL, Drift}
    /\ accepted = NoAccepted
    /\ loc = NoLoc
    /\ maxChainLength = 0
    /\ writeResumeInformation = FALSE
    /\ chainFile = <<>>
    /\ resumeExists = FALSE
    /\ resumeFile = <<>>
    /\ namesFile = <<>>
    /\ runs = MaxRuns - 1
    /\ origin = NoOrigin

SpecProposal == InitProposal /\ [][Next]_vars

\* ------------------------------------------------------ the configuration

\* The members that the configuration calls assign, as a record.
Members ==
    [paramNames_ |-> paramNames_, param1_ |-> param1_, param2_ |-> param2_,
     priorMods_ |-> priorMods_, starting_ |-> starting_,
     samplingWidth_ |-> samplingWidth_, accuracy_ |-> accuracy_,
     blocks_ |-> blocks_]

\* An optional argument is <<>> when the call omits it and <<v>> when the
\* call gives v; the call then passes the default of the declaration
\* (lines 346 and 357).
ArgOr(arg, default) == IF arg = <<>> THEN default ELSE arg[1]

\* A sampling width or an accuracy passed to a call is a fraction <<n, d>>
\* with d > 0 and n of either sign.
AtLeastZero(a) == a[1] >= 0
IsZero(a) == a[1] = 0

\* WidthAndAccuracy with the default accuracy a tenth of the default width.
WidthAndAccuracyFromDefaultWidth(o, i, width, samplingWidth, accuracy) ==
    IF ~check(AtLeastZero(samplingWidth)) THEN [fatal |-> TRUE, o |-> o]
    ELSE LET w == IF IsZero(samplingWidth) THEN width ELSE samplingWidth
             o1 == [o EXCEPT !.samplingWidth_[i] = w]
         IN  IF ~check(AtLeastZero(accuracy)) THEN [fatal |-> TRUE, o |-> o1]
             ELSE [fatal |-> FALSE,
                   o |-> [o1 EXCEPT !.accuracy_[i] =
                            IF IsZero(accuracy) THEN Frac(width[1], width[2] * 10)
                            ELSE accuracy]]

\* The tail of setParam and setParamGauss (lines 594-604 and 623-633) in the
\* object o: the sampling width and the accuracy of parameter i, width being
\* the default width; fatal when a check fails, with what was assigned
\* before it.
WidthAndAccuracy(o, i, width, samplingWidth, accuracy) ==
    IF ~check(AtLeastZero(samplingWidth)) THEN [fatal |-> TRUE, o |-> o]
    ELSE LET w == IF IsZero(samplingWidth) THEN width ELSE samplingWidth
             o1 == [o EXCEPT !.samplingWidth_[i] = w]
         IN  IF ~check(AtLeastZero(accuracy)) THEN [fatal |-> TRUE, o |-> o1]
             ELSE [fatal |-> FALSE,
                   o |-> [o1 EXCEPT !.accuracy_[i] =
                            IF IsZero(accuracy) THEN Frac(w[1], w[2] * 10)
                            ELSE accuracy]]

\* setParam with max > min replaced by max >= min.
setParamAllowsEmptyRange(o, i, name, min, max, starting, samplingWidth, accuracy) ==
    IF ~check(i \in Idx) \/ ~check(max >= min) THEN [fatal |-> TRUE, o |-> o]
    ELSE WidthAndAccuracy(
            [o EXCEPT !.paramNames_[i] = name, !.param1_[i] = min,
                      !.param2_[i] = max, !.priorMods_[i] = UNIFORM_PRIOR,
                      !.starting_[i] = IF starting = DblMax THEN (max + min) \div 2
                                       ELSE starting],
            i, Frac(max - min, 100), samplingWidth, accuracy)

\* setParam (lines 578-605) on the object o.  The index i of the model is
\* the index of the source plus one; min and max are even numbers, so that
\* (max + min) / 2.0 is the whole number (max + min) \div 2.
setParam(o, i, name, min, max, starting, samplingWidth, accuracy) ==
    IF ~check(i \in Idx) \/ ~check(max > min) THEN [fatal |-> TRUE, o |-> o]
    ELSE WidthAndAccuracy(
            [o EXCEPT !.paramNames_[i] = name, !.param1_[i] = min,
                      !.param2_[i] = max, !.priorMods_[i] = UNIFORM_PRIOR,
                      !.starting_[i] = IF starting = DblMax THEN (max + min) \div 2
                                       ELSE starting],
            i, Frac(max - min, 100), samplingWidth, accuracy)

\* setParamGauss (lines 607-634) on the object o.
setParamGauss(o, i, name, mean, sigma, starting, samplingWidth, accuracy) ==
    IF ~check(i \in Idx) \/ ~check(sigma > 0) THEN [fatal |-> TRUE, o |-> o]
    ELSE WidthAndAccuracy(
            [o EXCEPT !.paramNames_[i] = name, !.param1_[i] = mean,
                      !.param2_[i] = sigma, !.priorMods_[i] = GAUSSIAN_PRIOR,
                      !.starting_[i] = IF starting = DblMax THEN mean ELSE starting],
            i, Frac(sigma, 100), samplingWidth, accuracy)

\* specifyParameterBlocks (lines 636-649) on the object o; the loop of lines
\* 641-645 is compiled when the build defines CHECKS_ON.
specifyParameterBlocks(o, blocks, checksOn) ==
    IF ~check(blocks # <<>>) THEN [fatal |-> TRUE, o |-> o]
    ELSE IF checksOn /\ \E k \in 2..Len(blocks) :
                            ~check(blocks[k] > blocks[k - 1]) \/ ~check(blocks[k] <= NPar)
         THEN [fatal |-> TRUE, o |-> o]
         ELSE [fatal |-> FALSE, o |-> [o EXCEPT !.blocks_ = blocks]]

\* The members become those of the record o, the call ends in a fatal error
\* or returns.
Assign(r) ==
    /\ paramNames_' = r.o.paramNames_
    /\ param1_' = r.o.param1_
    /\ param2_' = r.o.param2_
    /\ priorMods_' = r.o.priorMods_
    /\ starting_' = r.o.starting_
    /\ samplingWidth_' = r.o.samplingWidth_
    /\ accuracy_' = r.o.accuracy_
    /\ blocks_' = r.o.blocks_
    /\ pc' = IF r.fatal THEN "fatal" ELSE "idle"
    /\ UNCHANGED <<mh, accepted, loc, args, externalProposal_, CHECKS_ON, cannotOpen, matrix,
                   disk, runs, origin, chains, rootFiles, mpi, randState, engines>>

\* The arguments of the calls of the model.
ArgIndex == 0..(NPar + 1)
ArgVals == {0, 2}
ArgStart == {<<>>, <<2>>, <<DblMax>>}
ArgWidth == {<<>>, <<<<-1, 1>>>>, <<<<0, 1>>>>, <<<<3, 1>>>>}
ArgAccuracy == {<<>>, <<<<-1, 1>>>>, <<<<0, 1>>>>, <<<<1, 4>>>>}
ArgBlocks == UNION {[1..n -> 0..(NPar + 1)] : n \in 0..(NPar + 1)}

CallSetParam(i, min, max, starting, samplingWidth, accuracy) ==
    /\ pc = "idle"
    /\ call' = [op |-> "setParam", i |-> i, min |-> min, max |-> max,
                starting |-> starting, samplingWidth |-> samplingWidth,
                accuracy |-> accuracy]
    /\ Assign(setParam(Members, i, i, min, max, ArgOr(starting, DblMax),
                       ArgOr(samplingWidth, Zero), ArgOr(accuracy, Zero)))

CallSetParamGauss(i, mean, sigma, starting, samplingWidth, accuracy) ==
    /\ pc = "idle"
    /\ call' = [op |-> "setParamGauss", i |-> i, mean |-> mean, sigma |-> sigma,
                starting |-> starting, samplingWidth |-> samplingWidth,
                accuracy |-> accuracy]
    /\ Assign(setParamGauss(Members, i, i, mean, sigma, ArgOr(starting, DblMax),
                            ArgOr(samplingWidth, Zero), ArgOr(accuracy, Zero)))

CallSpecifyParameterBlocks(blocks) ==
    /\ pc = "idle"
    /\ call' = [op |-> "specifyParameterBlocks", blocks |-> blocks]
    /\ Assign(specifyParameterBlocks(Members, blocks, CHECKS_ON))

\* The object after the constructor (lines 318-322).
AfterConstructor ==
    /\ pc = "idle"
    /\ mh = Constructed
    /\ paramNames_ = [j \in Idx |-> 0]
    /\ param1_ = [j \in Idx |-> 0]
    /\ param2_ = [j \in Idx |-> 0]
    /\ starting_ = [j \in Idx |-> DblMax]
    /\ samplingWidth_ = [j \in Idx |-> Zero]
    /\ accuracy_ = [j \in Idx |-> Zero]
    /\ priorMods_ = [j \in Idx |-> PRIOR_MODE_MAX]
    /\ blocks_ = [b \in 1..NPar |-> b]
    /\ externalProposal_ = NULL
    /\ call = NoCall
    /\ cannotOpen = {}
    /\ accepted = NoAccepted
    /\ loc = NoLoc
    /\ maxChainLength = 0
    /\ writeResumeInformation = FALSE
    /\ chainFile = <<>>
    /\ resumeExists = FALSE
    /\ resumeFile = <<>>
    /\ namesFile = <<>>
    /\ runs = 0
    /\ origin = NoOrigin

\* The calls that configure the parameters, on a new object.
InitConfig == AfterConstructor /\ CHECKS_ON = FALSE /\ Alone

NextConfig ==
    \/ \E i \in ArgIndex, min \in ArgVals, max \in ArgVals, starting \in ArgStart,
          samplingWidth \in ArgWidth, accuracy \in ArgAccuracy :
            CallSetParam(i, min, max, starting, samplingWidth, accuracy)
    \/ \E i \in ArgIndex, mean \in ArgVals, sigma \in ArgVals, starting \in ArgStart,
          samplingWidth \in ArgWidth, accuracy \in ArgAccuracy :
            CallSetParamGauss(i, mean, sigma, starting, samplingWidth, accuracy)

SpecConfig == InitConfig /\ [][NextConfig]_vars

\* The calls that set the blocks, on a new object, in a build with or
\* without CHECKS_ON.
InitBlocks == AfterConstructor /\ CHECKS_ON \in BOOLEAN /\ Alone

NextBlocks == \E blocks \in ArgBlocks : CallSpecifyParameterBlocks(blocks)

SpecBlocks == InitBlocks /\ [][NextBlocks]_vars

\* ------------------------------------- runs of a partly configured object

\* The object at the n-th sweep boundary of a chain started at start with
\* maxChainLength m whose sweeps have all stayed at start.
RECURSIVE StayedFor(_, _, _)
StayedFor(m, start, n) ==
    IF n = 0 THEN FreshState(Constructed, m, start)
    ELSE update([StayedFor(m, start, n - 1) EXCEPT !.iteration_ = @ + 1])

\* The object for which setParam was called for the first parameter only:
\* the members of the others are as the constructor left them.
SetFirstOnly ==
    /\ starting_ = [j \in Idx |-> IF j = 1 THEN 0 ELSE DblMax]
    /\ blocks_ = [b \in 1..NPar |-> b]
    /\ accuracy_ = [j \in Idx |-> IF j = 1 THEN <<1, 4>> ELSE Zero]
    /\ param1_ = [j \in Idx |-> 0]
    /\ param2_ = [j \in Idx |-> IF j = 1 THEN 1 ELSE 0]
    /\ priorMods_ = [j \in Idx |-> IF j = 1 THEN UNIFORM_PRIOR ELSE PRIOR_MODE_MAX]
    /\ samplingWidth_ = [j \in Idx |-> IF j = 1 THEN One ELSE Zero]
    /\ paramNames_ = [j \in Idx |-> IF j = 1 THEN paramNames[1] ELSE 0]
    /\ CHECKS_ON = FALSE
    /\ call = NoCall
    /\ cannotOpen = {}
    /\ Alone

\* The program is started once, with the object fully or partly configured,
\* over no files or over the files of an earlier run of the fully
\* configured program that was stopped after n sweeps.
InitNoPrior ==
    /\ pc = "idle"
    /\ mh = Constructed
    /\ \/ \E c \in Configs : Configured(c) /\ c.starting = ZeroVec
       \/ SetFirstOnly
    /\ externalProposal_ = NULL
    /\ accepted = NoAccepted
    /\ loc = NoLoc
    /\ maxChainLength = 0
    /\ writeResumeInformation = FALSE
    /\ \/ /\ chainFile = <<>>
          /\ resumeExists = FALSE
          /\ resumeFile = <<>>
       \/ \E n \in 1..MinChain :
            /\ chainFile = [k \in 1..n |-> ChainRow(LikeCalculate(ZeroVec), ZeroVec)]
            /\ resumeExists = TRUE
            /\ resumeFile = ResumeRecord(StayedFor(MinChain, ZeroVec, n))
    /\ namesFile = <<>>
    /\ runs = MaxRuns - 1
    /\ origin = NoOrigin

SpecNoPrior == InitNoPrior /\ [][Next]_vars

\* ------------------------------------------- runs that resume a long chain

\* f[1] + ... + f[k]
RECURSIVE SumUpTo(_, _)
SumUpTo(f, k) == IF k = 0 THEN 0 ELSE f[k] + SumUpTo(f, k - 1)

\* The object at the sweep boundary of a chain started at start with
\* maxChainLength m whose sweeps have ended at rows[1], rows[2], ...: what
\* update has added up, sweep by sweep, prev_ being the vector of the sweep
\* before (start for the first).
AfterRows(m, start, rows) ==
    LET n == Len(rows)
        last == IF n = 0 THEN start ELSE rows[n]
        before == [k \in 1..n |-> IF k = 1 THEN start ELSE rows[k - 1]]
    IN  [maxChainLength_ |-> m, iteration_ |-> n,
         currentLike_ |-> LikeCalculate(last), currentPrior_ |-> calculatePrior(last),
         current_ |-> last, prev_ |-> last,
         paramSum_ |-> [i \in Idx |-> SumUpTo([k \in 1..n |-> rows[k][i]], n)],
         paramSquaredSum_ |-> [i \in Idx |-> SumUpTo([k \in 1..n |-> rows[k][i] * rows[k][i]], n)],
         corSum_ |-> [i \in Idx |-> SumUpTo([k \in 1..n |-> rows[k][i] * before[k][i]], n)]]

\* The vectors inside the priors of Configured.
InPrior == [Idx -> 0..1]
\* The maxChainLength of the chain resumed, and the sweeps it has made.
LongChain == MinChain + 4
SweepsMade == MinChain + 3

\* The program is started once, over the chain file and the resume file of
\* a chain of SweepsMade sweeps inside the priors, run with maxChainLength
\* LongChain.
InitStop ==
    /\ pc = "idle"
    /\ mh = Constructed
    /\ \E c \in Configs : Configured(c) /\ c.starting \in InPrior
    /\ externalProposal_ = NULL
    /\ accepted = NoAccepted
    /\ loc = NoLoc
    /\ maxChainLength = 0
    /\ writeResumeInformation = FALSE
    /\ \E rows \in [1..SweepsMade -> InPrior] :
          /\ chainFile = [k \in 1..SweepsMade |-> ChainRow(LikeCalculate(rows[k]), rows[k])]
          /\ resumeFile = ResumeRecord(AfterRows(LongChain, starting_, rows))
    /\ resumeExists = TRUE
    /\ namesFile = <<>>
    /\ runs = MaxRuns - 1
    /\ origin = NoOrigin

SpecStop == InitStop /\ [][Next]_vars

\* ------------------------------------- runs with files that cannot be opened

\* The program is started once, from the vector 0 with the default blocks,
\* over no files or over the chain file and the resume file of a chain of
\* one sweep; any of the three files may be one that cannot be opened for
\* writing.
InitFaults ==
    /\ pc = "idle"
    /\ mh = Constructed
    /\ starting_ = ZeroVec
    /\ blocks_ = [b \in 1..NPar |-> b]
    /\ accuracy_ = [j \in Idx |-> <<1, 4>>]
    /\ param1_ = [j \in Idx |-> 0]
    /\ param2_ = [j \in Idx |-> 1]
    /\ priorMods_ = [j \in Idx |-> UNIFORM_PRIOR]
    /\ samplingWidth_ = [j \in Idx |-> One]
    /\ paramNames_ = paramNames
    /\ CHECKS_ON = FALSE
    /\ call = NoCall
    /\ cannotOpen \in SUBSET Files
    /\ Alone
    /\ externalProposal_ = NULL
    /\ accepted = NoAccepted
    /\ loc = NoLoc
    /\ maxChainLength = 0
    /\ writeResumeInformation = FALSE
    /\ \/ /\ chainFile = <<>>
          /\ resumeExists = FALSE
          /\ resumeFile = <<>>
       \/ /\ chainFile = <<ChainRow(LikeCalculate(ZeroVec), ZeroVec)>>
          /\ resumeExists = TRUE
          /\ \E m \in ChainLengths :
                resumeFile = ResumeRecord(AfterFirstSweep(m, ZeroVec, ZeroVec))
    /\ namesFile = <<>>
    /\ runs = MaxRuns - 1
    /\ origin = NoOrigin

SpecFaults == InitFaults /\ [][Next]_vars

\* ---------------------------------------- several chains, one per process

\* The processes that run a chain, and the file roots their objects are
\* constructed with.
NChains == 2
Roots == {"a", "b"}

\* The names of the files of an object: lines 333, 459 and 660.
ResumeFileName(fileRoot) == <<fileRoot, "resume.dat">>
ChainFileName(fileRoot) == <<fileRoot, ".txt">>
ParamNamesFileName(fileRoot) == <<fileRoot, ".paramnames">>
FileNames ==
    UNION {{ResumeFileName(r), ChainFileName(r), ParamNamesFileName(r)} : r \in Roots}

\* run is called in process p: the paramnames file is written, the resume
\* file of the object's name is read if there is one, and the chain file is
\* opened.  What is written carries the process that wrote it (by); the
\* object keeps the process whose record it resumed from (from).
ChainRun(p) ==
    LET root == chains[p].fileRoot_
        rec == rootFiles[ResumeFileName(root)]
    IN  /\ chains[p].pc = "idle"
        /\ chains' = [chains EXCEPT ![p].pc = "running",
                                    ![p].iteration_ = IF rec # <<>> THEN rec[1].iteration_ ELSE 0,
                                    ![p].from = IF rec # <<>> THEN rec[1].by ELSE p]
        /\ rootFiles' = [rootFiles EXCEPT
                            ![ParamNamesFileName(root)] = <<[by |-> p]>>,
                            ![ChainFileName(root)] = openOut(rec # <<>>, @)]
        /\ UNCHANGED <<pc, mh, accepted, loc, args, starting_, accuracy_, blocks_,
                       param1_, param2_, priorMods_, samplingWidth_, paramNames_,
                       externalProposal_, CHECKS_ON, call, cannotOpen, matrix, disk, runs,
                       origin, mpi, randState, engines>>

\* A sweep of the chain of process p, lines 763-768 with
\* writeResumeInformation: the row is written, the iteration counted, the
\* resume file written.
ChainSweep(p) ==
    LET root == chains[p].fileRoot_
    IN  /\ chains[p].pc = "running"
        /\ chains[p].iteration_ < MinChain
        /\ chains' = [chains EXCEPT ![p].iteration_ = @ + 1]
        /\ rootFiles' = [rootFiles EXCEPT
                            ![ChainFileName(root)] =
                                Append(@, [by |-> p, iteration_ |-> chains[p].iteration_ + 1]),
                            ![ResumeFileName(root)] =
                                <<[by |-> p, iteration_ |-> chains[p].iteration_ + 1]>>]
        /\ UNCHANGED <<pc, mh, accepted, loc, args, starting_, accuracy_, blocks_,
                       param1_, param2_, priorMods_, samplingWidth_, paramNames_,
                       externalProposal_, CHECKS_ON, call, cannotOpen, matrix, disk, runs,
                       origin, mpi, randState, engines>>

\* stop() is true for the chain of process p: run returns.
ChainEnd(p) ==
    /\ chains[p].pc = "running"
    /\ chains[p].iteration_ >= MinChain
    /\ chains' = [chains EXCEPT ![p].pc = "done"]
    /\ UNCHANGED <<pc, mh, accepted, loc, args, starting_, accuracy_, blocks_,
                   param1_, param2_, priorMods_, samplingWidth_, paramNames_,
                   externalProposal_, CHECKS_ON, call, cannotOpen, matrix, disk, runs,
                   origin, rootFiles, mpi, randState, engines>>

\* Each process has constructed its object, with some file root; no file
\* exists.
InitChains ==
    /\ AfterConstructor
    /\ CHECKS_ON = FALSE
    /\ chains \in [1..NChains -> [pc : {"idle"}, fileRoot_ : Roots,
                                   iteration_ : {0}, from : {0}]]
    /\ rootFiles = [f \in FileNames |-> <<>>]
    /\ mpi = <<>>
    /\ randState = 0
    /\ engines = <<>>
    /\ matrix = <<>>

NextChains ==
    \E p \in 1..NChains : ChainRun(p) \/ ChainSweep(p) \/ ChainEnd(p)

SpecChains == InitChains /\ [][NextChains]_vars

\* ------------------------------------------------ CosmoMPI: getCommTag

\* The most processes of one MPI run that are followed, and the most calls
\* of getCommTag each of them makes.
NProc == 3
MaxCalls == 4

\* The processes of the run.  Without COSMO_MPI there is one.
Procs == DOMAIN mpi

\* CosmoMPI::numProcesses: the size of MPI_COMM_WORLD, 1 without COSMO_MPI.
numProcesses == Cardinality(Procs)

NextCommTagUnscaled(commTag) == commTag + 10

\* getCommTag: commTag_ += 10 * numProcesses().
NextCommTag(commTag) == commTag + 10 * numProcesses

\* MPI_Barrier(MPI_COMM_WORLD): the process that has entered its k-th
\* barrier leaves it once every process has entered its k-th barrier.
\* Without COSMO_MPI the process is alone and never waits.
BarrierOpen(p) == \A q \in Procs : mpi[q].entered >= mpi[p].entered

\* Process p calls getCommTag and enters barrier().
GetCommTagCall(p) ==
    /\ mpi[p].pc = "idle"
    /\ mpi[p].entered < MaxCalls
    /\ mpi' = [mpi EXCEPT ![p].pc = "barrier", ![p].entered = @ + 1]
    /\ UNCHANGED <<pc, mh, accepted, loc, args, starting_, accuracy_, blocks_,
                   param1_, param2_, priorMods_, samplingWidth_, paramNames_,
                   externalProposal_, CHECKS_ON, call, cannotOpen, matrix, disk, runs,
                   origin, chains, rootFiles, randState, engines>>

\* Process p leaves barrier(), advances commTag_ and returns it.
GetCommTagReturn(p) ==
    /\ mpi[p].pc = "barrier"
    /\ BarrierOpen(p)
    /\ mpi' = [mpi EXCEPT ![p].pc = "idle",
                          ![p].commTag_ = NextCommTag(@),
                          ![p].returned = Append(@, NextCommTag(mpi[p].commTag_))]
    /\ UNCHANGED <<pc, mh, accepted, loc, args, starting_, accuracy_, blocks_,
                   param1_, param2_, priorMods_, samplingWidth_, paramNames_,
                   externalProposal_, CHECKS_ON, call, cannotOpen, matrix, disk, runs,
                   origin, chains, rootFiles, randState, engines>>

\* Every process has constructed the CosmoMPI singleton: commTag_ = 1000.
InitTags ==
    /\ AfterConstructor
    /\ CHECKS_ON = FALSE
    /\ \E n \in 1..NProc :
         mpi = [p \in 1..n |-> [pc |-> "idle", commTag_ |-> 1000,
                                entered |-> 0, returned |-> <<>>]]
    /\ chains = <<>>
    /\ rootFiles = <<>>
    /\ randState = 0
    /\ engines = <<>>
    /\ matrix = <<>>

NextTags == \E p \in Procs : GetCommTagCall(p) \/ GetCommTagReturn(p)

SpecTags == InitTags /\ [][NextTags]_vars

\* ---------------------------------------- several objects in one process

\* The most objects of one process that are followed, and the most
\* acceptance draws each of them makes.
NEngines == 2
MaxDraws == 3

\* The non-zero seeds the objects are constructed with.
Seeds == 1..2

\* std::rand is a generator with one state for the whole process:
\* std::srand sets the state, std::rand advances it and returns a value
\* of 0..RandMax that the state determines.
RandPeriod == 8
srand(seed) == seed % RandPeriod
RandAdvance(state) == (5 * state + 3) % RandPeriod
RandValue(state) == state % (RandMax + 1)

\* The constructor of object e, with a non-zero seed: seed_ = seed,
\* std::srand((unsigned) seed_), and a generator of its own for the
\* proposals.
Construct(e, seed) ==
    /\ ~engines[e].made
    /\ engines' = [engines EXCEPT ![e] = [made |-> TRUE, seed_ |-> seed,
                                          uniform |-> <<>>]]
    /\ randState' = srand(seed)
    /\ UNCHANGED <<pc, mh, accepted, loc, args, starting_, accuracy_, blocks_,
                   param1_, param2_, priorMods_, samplingWidth_, paramNames_,
                   externalProposal_, CHECKS_ON, call, cannotOpen, matrix, disk, runs,
                   origin, chains, rootFiles, mpi>>

\* The acceptance draw of one block update of the run of object e:
\* r = std::rand().
DrawUniform(e) ==
    /\ engines[e].made
    /\ Len(engines[e].uniform) < MaxDraws
    /\ randState' = RandAdvance(randState)
    /\ engines' = [engines EXCEPT
                     ![e].uniform = Append(@, RandValue(RandAdvance(randState)))]
    /\ UNCHANGED <<pc, mh, accepted, loc, args, starting_, accuracy_, blocks_,
                   param1_, param2_, priorMods_, samplingWidth_, paramNames_,
                   externalProposal_, CHECKS_ON, call, cannotOpen, matrix, disk, runs,
                   origin, chains, rootFiles, mpi>>

\* No object has been constructed in the process.
InitEngines ==
    /\ AfterConstructor
    /\ CHECKS_ON = FALSE
    /\ engines = [e \in 1..NEngines |->
                    [made |-> FALSE, seed_ |-> 0, uniform |-> <<>>]]
    /\ randState = 1
    /\ chains = <<>>
    /\ rootFiles = <<>>
    /\ mpi = <<>>
    /\ matrix = <<>>

NextEngines ==
    \E e \in 1..NEngines :
        \/ \E seed \in Seeds : Construct(e, seed)
        \/ DrawUniform(e)

SpecEngines == InitEngines /\ [][NextEngines]_vars

\* --------------------------------- SymmetricMatrix: readFromTextFile

\* The largest number of rows or columns in the header of a file.
MaxDim == 2

\* The elements in the files.
Elems == 0..MaxVal

\* The text files: the header rows, cols, then rows * cols elements, row by
\* row (the header of a file may also give a negative number of rows).
MatrixFiles ==
    UNION {[rows : {r}, cols : {c}, elems : [1..(IF r > 0 THEN r * c ELSE 0) -> Elems]] :
              r \in (-1)..MaxDim, c \in 0..MaxDim}

\* The element (i, j) of the file, rows and columns counted from 0.
FileElem(file, i, j) == file.elems[i * file.cols + j + 1]

\* operator()(i, j): the position in v_ of the element (i, j): i and j are
\* swapped when i < j.
Position(i, j) ==
    IF i < j THEN ((j * (j + 1)) \div 2) + i ELSE ((i * (i + 1)) \div 2) + j

\* The first indices (i, j), row by row, whose element of the file the loop
\* stores at position k of v_: the loop stores the elements with j >= i.
Stored(file, k) ==
    CHOOSE e \in (0..(file.rows - 1)) \X (0..(file.rows - 1)) :
        e[1] <= e[2] /\ Position(e[1], e[2]) = k

\* readFromTextFile with the exception thrown when an element read differs
\* from the element stored for its transpose.
readFromTextFileThrows(o, file) ==
    IF file.rows < 0 \/ file.rows # file.cols
    THEN [thrown |-> TRUE, o |-> [o EXCEPT !.rows_ = file.rows, !.cols_ = file.cols]]
    ELSE IF \E i \in 0..(file.rows - 1) : \E j \in 0..(i - 1) :
                FileElem(file, i, j) # FileElem(file, j, i)
    THEN [thrown |-> TRUE, o |-> [o EXCEPT !.rows_ = file.rows, !.cols_ = file.cols]]
    ELSE [thrown |-> FALSE,
          o |-> [rows_ |-> file.rows, cols_ |-> file.cols,
                 v_ |-> [k \in 0..(((file.rows * (file.rows + 1)) \div 2) - 1) |->
                            FileElem(file, Stored(file, k)[1], Stored(file, k)[2])]]]

\* readFromTextFile on the object o for a file that can be opened: what it
\* throws and the object it leaves.  rows_ and cols_ are read from the
\* header before the tests.  In the loop an element with j < i is read and
\* compared with the element (j, i) stored earlier, a message is composed
\* when they differ, and the loop goes on; an element with j >= i is stored.
readFromTextFile(o, file) ==
    IF file.rows < 0 \/ file.rows # file.cols
    THEN [thrown |-> TRUE, o |-> [o EXCEPT !.rows_ = file.rows, !.cols_ = file.cols]]
    ELSE [thrown |-> FALSE,
          o |-> [rows_ |-> file.rows, cols_ |-> file.cols,
                 v_ |-> [k \in 0..(((file.rows * (file.rows + 1)) \div 2) - 1) |->
                            FileElem(file, Stored(file, k)[1], Stored(file, k)[2])]]]

\* The call of readFromTextFile on the object.
ReadFromTextFile ==
    /\ matrix.pc = "constructed"
    /\ LET r == readFromTextFile(matrix.o, matrix.file)
       IN  matrix' = [matrix EXCEPT !.pc = IF r.thrown THEN "thrown" ELSE "read",
                                    !.o = r.o]
    /\ UNCHANGED <<pc, mh, accepted, loc, args, starting_, accuracy_, blocks_,
                   param1_, param2_, priorMods_, samplingWidth_, paramNames_,
                   externalProposal_, CHECKS_ON, call, cannotOpen, disk, runs,
                   origin, chains, rootFiles, mpi, randState, engines>>

\* An empty SymmetricMatrix has been constructed and a text file is there.
InitMatrix ==
    /\ AfterConstructor
    /\ CHECKS_ON = FALSE
    /\ \E file \in MatrixFiles :
         matrix = [pc |-> "constructed", file |-> file,
                   o |-> [rows_ |-> 0, cols_ |-> 0, v_ |-> <<>>]]
    /\ chains = <<>>
    /\ rootFiles = <<>>
    /\ mpi = <<>>
    /\ randState = 0
    /\ engines = <<>>

NextMatrix == ReadFromTextFile

SpecMatrix == InitMatrix /\ [][NextMatrix]_vars

\* ----------------------------------------------------------------- claims

\* The run has started (fresh or resumed) and has not been killed.
Running == pc \notin {"idle", "resume", "fatal"}
\* Between two sweeps: before stop() is evaluated, or after it said stop.
AtBoundary == pc \in {"loop", "done"}

\* C1: a run started fresh with maxChainLength = M > 0 never has an iteration
\* count above M (it ends below M, accuracy met, or exactly at M).
C1_IterationWithinMax ==
    (Running /\ ~origin.resumed) => mh.iteration_ <= maxChainLength

\* C2: after any sequence of starts, kills and resumes the chain file holds
\* exactly one row per completed sweep: at every sweep boundary the number of
\* rows equals the iteration count.
C2_OneRowPerSweep ==
    AtBoundary => Len(chainFile) = mh.iteration_

\* What a newly constructed object restores from the resume file on disk.
OnDisk == readResumeInfo(Constructed, resumeExists, resumeFile)
\* The same, from the files as the step leaves them.
OnDiskNext == readResumeInfo(Constructed, resumeExists', resumeFile')

\* writeResumeInfo has returned at least once since this run read the resume
\* file, or the run resumed from it: the file on disk is this run's.
SavedBefore(it) == origin.resumed \/ it > origin.st.iteration_

\* C3 as claimed: with writeResumeInformation, once a checkpoint has been
\* written, whenever the process ends or is killed (inside writeResumeInfo
\* too) the resume file left on disk is loadable and holds the last completed
\* sweep, or the one before when that sweep's save had not begun: the
\* progress already checkpointed is not lost.
C3_CheckpointAlwaysLoadable ==
    [][(/\ writeResumeInformation /\ Running /\ pc' = "idle"
        /\ SavedBefore(IF pc \in {"save", "saving"} THEN mh.iteration_ - 1
                       ELSE mh.iteration_))
          => (OnDiskNext.ok /\ OnDiskNext.st.iteration_ >= mh.iteration_ - 1)]_vars

\* C3, amended.  With writeResumeInformation: (a) from the return of
\* writeResumeInfo for a sweep until the row of the next sweep is written,
\* the file on disk is loadable and holds the complete state of that sweep;
\* (b) between writing a sweep's row and opening the resume file it still
\* holds the sweep before; (c) when the process dies inside writeResumeInfo
\* the file is a cut record, which the next run restores only when nothing
\* but the marker's last byte is missing, and then it is the complete state
\* of the sweep: a partial state is never restored, the progress is lost.
C3_InvSaved ==
    /\ (writeResumeInformation /\ pc \in {"loop", "propose", "decide", "row", "done"}
            /\ SavedBefore(mh.iteration_))
        => /\ OnDisk.ok
           /\ OnDisk.st.iteration_ = mh.iteration_
           /\ OnDisk.st.maxChainLength_ = mh.maxChainLength_
           /\ OnDisk.st.current_ = mh.prev_
           /\ OnDisk.st.prev_ = mh.prev_
           /\ OnDisk.st.paramSum_ = mh.paramSum_
           /\ OnDisk.st.paramSquaredSum_ = mh.paramSquaredSum_
           /\ OnDisk.st.corSum_ = mh.corSum_
           /\ (AtBoundary => OnDisk.st = mh)
    /\ (writeResumeInformation /\ pc = "save" /\ SavedBefore(mh.iteration_ - 1))
        => /\ OnDisk.ok
           /\ OnDisk.st.iteration_ = mh.iteration_ - 1
           /\ \A i \in Idx : OnDisk.st.paramSum_[i] = mh.paramSum_[i] - mh.current_[i]
C3_KilledInSave ==
    (pc = "saving" /\ pc' = "idle")
        => /\ OnDiskNext.ok => OnDiskNext.st = mh
           /\ OnDiskNext.ok <=> Len(resumeFile') >= RecLen - 1
C3_CheckpointOfLastSave == []C3_InvSaved /\ [][C3_KilledInSave]_vars
\* The process died inside writeResumeInfo and left a cut record on disk.
C3_Witness ==
    pc = "idle" /\ runs >= 1 /\ resumeExists /\ Len(resumeFile) = RecLen - 4

\* The rows this run has appended to the chain file.
RowsOfRun == SubSeq(chainFile, origin.rows + 1, Len(chainFile))
\* f[1] + ... + f[n]
RECURSIVE SumTo(_, _)
SumTo(f, n) == IF n = 0 THEN 0 ELSE f[n] + SumTo(f, n - 1)
\* Parameter i in row k of rows, row 0 being the vector first.
RowParam(rows, k, first, i) == IF k = 0 THEN first[i] ELSE rows[k][3][i]

\* C4: a run that resumed from the checkpoint of iteration N and has completed
\* M more sweeps has iteration = N + M, and its three sums are the
\* checkpointed ones plus the contributions of the M rows it appended.
C4_ContinuousAcrossResume ==
    (Running /\ origin.resumed) =>
        LET rows == RowsOfRun
            M == Len(rows)
            rec == origin.rec
            o == [iteration_ |-> rec[2],
                  prev_ |-> [j \in Idx |-> rec[4 + NPar + j]],
                  paramSum_ |-> [j \in Idx |-> rec[4 + 2 * NPar + j]],
                  paramSquaredSum_ |-> [j \in Idx |-> rec[4 + 3 * NPar + j]],
                  corSum_ |-> [j \in Idx |-> rec[4 + 4 * NPar + j]]]
        IN  /\ mh.iteration_ = o.iteration_ + M
            /\ \A i \in Idx :
                /\ mh.paramSum_[i] = o.paramSum_[i]
                        + SumTo([k \in 1..M |-> RowParam(rows, k, o.prev_, i)], M)
                /\ mh.paramSquaredSum_[i] = o.paramSquaredSum_[i]
                        + SumTo([k \in 1..M |-> RowParam(rows, k, o.prev_, i)
                                                    * RowParam(rows, k, o.prev_, i)], M)
                /\ mh.corSum_[i] = o.corSum_[i]
                        + SumTo([k \in 1..M |-> RowParam(rows, k, o.prev_, i)
                                                    * RowParam(rows, k - 1, o.prev_, i)], M)
\* A run resumed from the checkpoint of a later sweep than the first and
\* completed two more sweeps, with non-zero sums.
C4_Witness ==
    /\ Running /\ origin.resumed /\ origin.st.iteration_ >= 1
    /\ Len(RowsOfRun) = 2
    /\ mh.corSum_[1] > origin.st.corSum_[1]
    /\ origin.st.paramSum_[1] > 0

\* The bytes of the marker 123456 as they lie in the file.
MarkerBytes == <<64, 226, 1, 0>>

\* C5: writeResumeInfo then readResumeInfo returns true and restores every
\* field saved; the record holds the four scalars, then current, prev,
\* paramSum, paramSquaredSum, corSum, then the marker.
C5_RoundTrip ==
    (writeResumeInformation /\ pc = "loop" /\ mh.iteration_ > origin.st.iteration_) =>
        /\ OnDisk = [ok |-> TRUE, st |-> mh]
        /\ Len(resumeFile) = 4 + 5 * NPar + 4
        /\ SubSeq(resumeFile, 1, 4)
              = <<mh.maxChainLength_, mh.iteration_, mh.currentLike_, mh.currentPrior_>>
        /\ \A j \in Idx :
              /\ resumeFile[4 + j] = mh.current_[j]
              /\ resumeFile[4 + NPar + j] = mh.prev_[j]
              /\ resumeFile[4 + 2 * NPar + j] = mh.paramSum_[j]
              /\ resumeFile[4 + 3 * NPar + j] = mh.paramSquaredSum_[j]
              /\ resumeFile[4 + 4 * NPar + j] = mh.corSum_[j]
        /\ SubSeq(resumeFile, 4 + 5 * NPar + 1, 4 + 5 * NPar + 4) = MarkerBytes
\* A state was saved whose fields all differ from the constructed object's
\* and whose three sums differ from one another.
C5_Witness ==
    /\ writeResumeInformation /\ pc = "loop" /\ mh.iteration_ > origin.st.iteration_
    /\ mh.paramSum_[1] > 0 /\ mh.paramSquaredSum_[1] > mh.paramSum_[1]
    /\ mh.corSum_[1] > 0 /\ mh.corSum_[1] # mh.paramSquaredSum_[1]
    /\ mh.currentLike_ > 0

\* The run has just read the resume file: nothing has been written since.
JustStarted == pc = "loop" /\ Len(chainFile) = origin.rows

\* The state of a fresh start: what run's else branch assigns, from the
\* arguments and the configuration alone.
StartsFresh ==
    /\ ~origin.resumed
    /\ origin.st = [maxChainLength_ |-> maxChainLength,
                    iteration_ |-> 0,
                    currentLike_ |-> LikeCalculate(starting_),
                    currentPrior_ |-> calculatePrior(starting_),
                    current_ |-> starting_,
                    prev_ |-> starting_,
                    paramSum_ |-> ZeroVec,
                    paramSquaredSum_ |-> ZeroVec,
                    corSum_ |-> ZeroVec]
    /\ origin.rows = 0

\* C6: a run that finds the resume file missing, truncated or carrying
\* another marker starts fresh, from exactly the state of a run that finds
\* no file: nothing read from the file is left in the object.
C6_BadCheckpointIsFreshStart ==
    (JustStarted /\ (\/ ~resumeExists
                     \/ Len(resumeFile) < RecLen
                     \/ SubSeq(resumeFile, RecLen - 3, RecLen) # MarkerBytes))
        => StartsFresh
\* The same for every bad file but the one that lacks only its last byte.
C6_AllButLastByte ==
    (JustStarted /\ (\/ ~resumeExists
                     \/ Len(resumeFile) < RecLen - 1
                     \/ SubSeq(resumeFile, RecLen - 3, RecLen - 1) # SubSeq(MarkerBytes, 1, 3)))
        => StartsFresh

InUnitInterval(a) == a[2] > 0 /\ a[1] >= 0 /\ a[1] <= a[2]

\* C8: in every block update the acceptance probability compared with the
\* uniform draw satisfies 0 <= p <= 1 (here already for the runs whose
\* starting vector has a non-zero prior density).
C8_AcceptanceInUnitInterval ==
    (pc = "decide" /\ calculatePrior(starting_) # Zero) => InUnitInterval(loc.p)

\* The draw is at most p: u <= p as numbers.
DrawAtMost(q, p) == p[2] > 0 /\ q[2] > 0 /\ q[1] * p[2] <= p[1] * q[2]

\* C9: a block's candidate is accepted exactly when u <= p; then current
\* keeps the candidate in the block's indices (and the old values elsewhere),
\* L_current and P_current are those of the candidate, and the acceptance
\* counter of this block alone goes up by one.
C9_DecideStep ==
    (pc = "decide" /\ pc' # "idle") =>
        LET took == accepted'[loc.i] = accepted[loc.i] + 1
        IN  /\ took <=> (loc.p # NaN /\ DrawAtMost(loc.q, loc.p))
            /\ took =>
                /\ mh'.current_ = mh.current_
                /\ \A j \in Idx \ BlockIdx(blocks_, loc.i) :
                        mh'.current_[j] = loc.currentOld[j]
                /\ mh'.currentLike_ = LikeCalculate(mh'.current_)
                /\ mh'.currentPrior_ = calculatePrior(mh'.current_)
                /\ \A b \in DOMAIN accepted : b # loc.i => accepted'[b] = accepted[b]
            /\ ~took => accepted' = accepted
C9_AcceptExactlyWhenDrawAtMostP == [][C9_DecideStep]_vars
\* The first sweep accepted the candidate of block 2 and not that of block 1.
C9_Witness ==
    /\ pc = "row" /\ mh.iteration_ = 0 /\ accepted = <<0, 1>>
    /\ mh.current_[2] # starting_[2] /\ mh.current_[1] = starting_[1]

\* C10: on rejection current, L_current and P_current are what they were
\* before the proposal, and no acceptance counter changes.
C10_ProposeStep ==
    (pc = "propose" /\ pc' = "decide") =>
        /\ loc'.currentOld = mh.current_
        /\ loc'.oldLike = mh.currentLike_
        /\ mh'.currentPrior_ = mh.currentPrior_
        /\ accepted' = accepted
C10_RejectStep ==
    (pc = "decide" /\ pc' # "idle" /\ ~(loc.p # NaN /\ DrawAtMost(loc.q, loc.p))) =>
        /\ mh'.current_ = loc.currentOld
        /\ mh'.currentLike_ = loc.oldLike
        /\ mh'.currentPrior_ = mh.currentPrior_
        /\ accepted' = accepted
C10_RejectionRestores == [][C10_ProposeStep /\ C10_RejectStep]_vars
\* The first sweep rejected the candidates of both blocks.
C10_Witness ==
    /\ pc = "row" /\ mh.iteration_ = 0 /\ accepted = <<0, 0>>
    /\ mh.current_ = starting_

\* The step is the proposal of a block's candidate.
ProposedStep == pc = "propose" /\ pc' = "decide"
\* p clamped as lines 743-744 clamp it.
Clamped(p) == IF FGt(p, One) THEN One ELSE p
\* The acceptance ratio of the step's move without any correction.
PlainRatio ==
    FMul(FDiv(calculatePrior(mh'.current_), mh.currentPrior_),
         ExpHalfNeg(LikeCalculate(mh'.current_) - mh.currentLike_))
\* The plug-in's density of proposing the vector b from the vector a in the
\* block being updated.
Density(a, b) == ProposalCalculate(externalProposal_, a, b, blocks_, loc.i)
\* The block being updated has a plug-in that is not symmetric in it.
Asymmetric == externalProposal_ # NULL /\ ~isSymmetric(externalProposal_, loc.i)
\* With the built-in proposal or a symmetric plug-in the density is not
\* evaluated and the ratio is the plain one.
C11_NoCorrectionStep ==
    (ProposedStep /\ ~Asymmetric) =>
        (loc'.corr = <<>> /\ loc'.p = Clamped(PlainRatio))

\* C11 as claimed: with a plug-in that is not symmetric in block i the
\* acceptance ratio of block i is multiplied by q(old->new)/q(new->old); with
\* a symmetric plug-in or the built-in proposal the density is never
\* evaluated and no factor is applied.
C11_CorrectionForwardOverBackward ==
    [][/\ C11_NoCorrectionStep
       /\ (ProposedStep /\ Asymmetric) =>
            loc'.p = Clamped(FMul(PlainRatio,
                                  FDiv(Density(mh.current_, mh'.current_),
                                       Density(mh'.current_, mh.current_))))]_vars

\* C11, amended: the factor is q(new->old)/q(old->new), the density of
\* proposing the old vector from the new one over the density of proposing
\* the new one from the old one; the rest as claimed.
C11_CorrectionBackwardOverForward ==
    [][/\ C11_NoCorrectionStep
       /\ (ProposedStep /\ Asymmetric) =>
            /\ Len(loc'.corr) = 2
            /\ loc'.p = Clamped(FMul(PlainRatio,
                                     FDiv(Density(mh'.current_, mh.current_),
                                          Density(mh.current_, mh'.current_))))]_vars
\* A block update with the plug-in's correction, not hidden by the clamp.
C11_Witness ==
    /\ pc = "decide" /\ loc.corr # <<>>
    /\ FGt(One, loc.p) /\ FGt(loc.p, Zero)
    /\ loc.p # Clamped(FMul(FDiv(loc.newPrior, mh.currentPrior_),
                            ExpHalfNeg(mh.currentLike_ - loc.oldLike)))

\* C12: a run started afresh from a vector of prior density zero fails with
\* a fatal error at its start: it never gets to its loop, and no block update
\* divides a prior by a current prior of zero.
C12_ZeroPriorStartIsFatal ==
    /\ ~(Running /\ ~origin.resumed /\ calculatePrior(starting_) = Zero)
    /\ pc = "decide" => mh.currentPrior_ # Zero

\* Some parameter has no built-in prior (and there is no external prior).
HasNoPrior == \E i \in Idx : priorMods_[i] = PRIOR_MODE_MAX
\* C13: a run of an object with a parameter that has no prior fails with a
\* fatal error before any sweep is performed and any row written: it neither
\* decides on a candidate nor writes a row nor comes to its end.
C13_MissingPriorIsFatalAtStart ==
    HasNoPrior => pc \notin {"decide", "row", "save", "saving", "done"}

\* A vector of block boundaries that is a partition of the N parameters:
\* not empty, strictly increasing, within 1..N, ending at N.
ValidPartition(b) ==
    /\ b # <<>>
    /\ \A k \in 2..Len(b) : b[k] > b[k - 1]
    /\ \A k \in 1..Len(b) : b[k] \in 1..NPar
    /\ b[Len(b)] = NPar

\* C14: wherever a run can start, the blocks are a partition of the N
\* parameters; specifyParameterBlocks ends in a fatal error for every vector
\* that is not one; a new object has the N blocks 1, 2, ..., N.
C14_BlocksArePartition ==
    /\ pc = "idle" => ValidPartition(blocks_)
    /\ (call.op = "specifyParameterBlocks" /\ ~ValidPartition(call.blocks))
            => pc = "fatal"
    /\ call = NoCall => blocks_ = [b \in 1..NPar |-> b]

\* The last call was setParam or setParamGauss, for the parameter call.i.
SetCall == call.op \in {"setParam", "setParamGauss"}
\* The optional argument was given and is negative.
Negative(arg) == arg # <<>> /\ arg[1][1] < 0

\* C15: setParam and setParamGauss end in a fatal error, at the call, for an
\* index outside the parameters, for max <= min (uniform), for sigma <= 0
\* (Gaussian), and for a negative sampling width or accuracy.
C15_InvalidArgumentsAreFatal ==
    /\ (SetCall /\ (call.i \notin Idx \/ Negative(call.samplingWidth)
                        \/ Negative(call.accuracy))) => pc = "fatal"
    /\ (call.op = "setParam" /\ call.max <= call.min) => pc = "fatal"
    /\ (call.op = "setParamGauss" /\ call.sigma <= 0) => pc = "fatal"

C15_Witness ==
    /\ pc = "fatal"
    /\ call.op = "setParamGauss"
    /\ call.i \in Idx
    /\ call.sigma > 0
    /\ ~Negative(call.samplingWidth)
    /\ Negative(call.accuracy)

\* The defaults of the last call: the midpoint or the mean, a hundredth of
\* the range or of sigma.
DefaultStarting ==
    IF call.op = "setParam" THEN (call.min + call.max) \div 2 ELSE call.mean
DefaultWidth ==
    IF call.op = "setParam" THEN Frac(call.max - call.min, 100)
    ELSE Frac(call.sigma, 100)
\* The members of parameter call.i are the given values, or the defaults
\* where given(arg) is false.
StoredAsGiven(givenStarting(_), givenWidth(_)) ==
    /\ starting_[call.i] = IF givenStarting(call.starting) THEN call.starting[1]
                           ELSE DefaultStarting
    /\ samplingWidth_[call.i] = IF givenWidth(call.samplingWidth)
                                THEN call.samplingWidth[1] ELSE DefaultWidth
    /\ accuracy_[call.i] = IF givenWidth(call.accuracy) THEN call.accuracy[1]
                           ELSE Frac(samplingWidth_[call.i][1],
                                     samplingWidth_[call.i][2] * 10)
IsGiven(arg) == arg # <<>>
IsGivenNotDblMax(arg) == arg # <<>> /\ arg[1] # DblMax
IsGivenNotZero(arg) == arg # <<>> /\ arg[1] # Zero

\* C16, as stated: after a call of setParam or setParamGauss that returns,
\* the starting value, the sampling width and the accuracy of the parameter
\* are the given values, and the defaults for the arguments that the call
\* omitted.
C16_GivenValuesStoredUnchanged ==
    (SetCall /\ pc = "idle") => StoredAsGiven(IsGiven, IsGiven)

\* C16, amended: a starting value given as the largest double, and a width
\* or an accuracy given as 0, count as omitted.
C16_GivenValuesStoredUnlessSentinel ==
    (SetCall /\ pc = "idle") => StoredAsGiven(IsGivenNotDblMax, IsGivenNotZero)

C16_Witness ==
    /\ pc = "idle"
    /\ call.op = "setParam"
    /\ call.starting = <<>>
    /\ call.samplingWidth = <<<<3, 1>>>>
    /\ call.accuracy = <<>>
    /\ accuracy_[call.i] = <<3, 10>>

\* run has been called and is about to read the resume file.
RunStarts == pc = "idle" /\ pc' = "resume"

\* C17, as stated: the paramnames file is written by the start of a run
\* that finds no valid resume file, and no step of a run that resumes, nor
\* any later step, writes it.
C17_NamesWrittenByFreshStartOnly ==
    [][IF RunStarts /\ ~OnDisk.ok
       THEN namesFile' = ParamNamesLines(paramNames_)
       ELSE namesFile' = namesFile]_vars

\* C17, amended: the paramnames file is written by the start of every run,
\* resuming or not, and by no other step.
C17_NamesWrittenByEveryStart ==
    [][IF RunStarts
       THEN namesFile' = ParamNamesLines(paramNames_)
       ELSE namesFile' = namesFile]_vars

\* A run that resumed, over the paramnames file that its start wrote.
C17_Witness ==
    /\ origin.resumed
    /\ Running
    /\ runs = MaxRuns
    /\ namesFile = ParamNamesLines(paramNames_)

\* The step of run that reads the resume file and starts or resumes.
ReadsResume == pc = "resume" /\ pc' = "loop"

\* C18: a run that finds no resume file it can load begins at iteration 0,
\* with current and previous the starting vector, the likelihood and the
\* prior those of the starting vector, the three sums 0 for every parameter,
\* and an empty chain file.
C18_FreshStart ==
    [][(ReadsResume /\ ~OnDisk.ok) =>
            /\ mh'.iteration_ = 0
            /\ mh'.current_ = starting_ /\ mh'.prev_ = starting_
            /\ mh'.currentLike_ = LikeCalculate(starting_)
            /\ mh'.currentPrior_ = calculatePrior(starting_)
            /\ \A j \in Idx : /\ mh'.paramSum_[j] = 0
                               /\ mh'.paramSquaredSum_[j] = 0
                               /\ mh'.corSum_[j] = 0
            /\ chainFile' = <<>>]_vars

\* A fresh start over a resume file that cannot be loaded: the row that was
\* in the chain file is gone.
C18_Witness ==
    /\ JustStarted /\ ~origin.resumed
    /\ resumeExists /\ resumeFile # <<>>
    /\ mh.iteration_ = 0 /\ mh.prev_ = starting_
    /\ chainFile = <<>>

\* s is t or the beginning of t.
IsPrefix(s, t) == Len(s) <= Len(t) /\ SubSeq(t, 1, Len(s)) = s

\* C19: the step in which a run resumes, and every step of a run after its
\* start, the reopening of the chain file at each multiple of FlushEvery
\* iterations included, leave the rows of the chain file in place and at
\* most add rows after them.
C19_RowsOnlyAppended ==
    [][((ReadsResume /\ OnDisk.ok) \/ Running)
            => IsPrefix(chainFile, chainFile')]_vars

\* A run that resumed over a chain of at least one row has reopened the
\* chain file at a multiple of FlushEvery iterations.
C19_Witness ==
    /\ origin.resumed /\ origin.rows > 0
    /\ pc = "loop"
    /\ mh.iteration_ > origin.st.iteration_
    /\ mh.iteration_ % FlushEvery = 0
    /\ Len(chainFile) > origin.rows

StdErrWithin(n, S, Q, C, a) ==
    LET V == n * Q - S * S
        K == n * C - S * S
    IN  IF V # 0 /\ K * K < V * V
        THEN V * (V + K) * a[2] * a[2] <= a[1] * a[1] * n * n * n * (V - K)
        ELSE V * a[2] * a[2] <= a[1] * a[1] * n * n * n
AllWithinAccuracy ==
    \A i \in Idx : StdErrWithin(mh.iteration_, mh.paramSum_[i],
                                mh.paramSquaredSum_[i], mh.corSum_[i], accuracy_[i])

\* C21: a run that has stopped between MinChain iterations and its
\* maxChainLength has the standard error of every parameter within the
\* parameter's accuracy, and a run at a sweep boundary below maxChainLength
\* with the standard error of some parameter above its accuracy does not
\* stop there.
C21_StoppedWithin ==
    (pc = "done" /\ mh.iteration_ >= MinChain /\ mh.iteration_ < mh.maxChainLength_)
        => AllWithinAccuracy
C21_ContinuesAbove ==
    (pc = "loop" /\ mh.iteration_ < mh.maxChainLength_ /\ ~AllWithinAccuracy)
        => pc' # "done"
C21_StopsOnlyWithinAccuracy == []C21_StoppedWithin /\ [][C21_ContinuesAbove]_vars

\* A run has stopped below its maxChainLength on a parameter whose standard
\* error carries the factor of the autocorrelation.
C21_Witness ==
    /\ pc = "done"
    /\ mh.iteration_ >= MinChain /\ mh.iteration_ < mh.maxChainLength_
    /\ \E i \in Idx :
          LET V == mh.iteration_ * mh.paramSquaredSum_[i] - mh.paramSum_[i] * mh.paramSum_[i]
              K == mh.iteration_ * mh.corSum_[i] - mh.paramSum_[i] * mh.paramSum_[i]
          IN  V > 0 /\ K * K < V * V

\* Accuracy thresholds of a second run, and the vectors of them that are,
\* parameter by parameter, at least (at most) the thresholds of this run.
Thresholds == {<<1, 8>>, <<1, 4>>, <<1, 2>>, <<1, 1>>}
Coarser == {a \in [Idx -> Thresholds] : \A i \in Idx : FLeq(accuracy_[i], a[i])}
Finer == {a \in [Idx -> Thresholds] : \A i \in Idx : FLeq(a[i], accuracy_[i])}
\* stop() at the sweep boundary of this run, with the thresholds a.
StopWith(a) ==
    stop(mh.iteration_, mh.maxChainLength_, mh.paramSum_, mh.paramSquaredSum_,
         mh.corSum_, a)

\* C22: a second run that differs from this one in its accuracy thresholds
\* alone makes the same sweeps, as no step but the stop rule reads them;
\* where this run has stopped, the stop rule of every second run with
\* thresholds at least as large says stop too, so that run has stopped here
\* or before.
C22_CoarserStopsNoLater ==
    pc = "done" => \A a \in Coarser : StopWith(a)

\* A run has stopped below its maxChainLength where a run with some smaller
\* thresholds goes on, and there are larger thresholds than its own.
C22_Witness ==
    /\ pc = "done"
    /\ mh.iteration_ < mh.maxChainLength_
    /\ \E a \in Finer : ~StopWith(a)
    /\ \E a \in Coarser : a # accuracy_

\* The sweeps that this run has completed.
SweepsOfRun == mh.iteration_ - origin.st.iteration_

\* C23: with writeResumeInformation, at every sweep boundary after a sweep
\* of the run the resume file is the record of the object as it is then,
\* the sweep counted and added to the sums, with the row of the sweep in
\* the chain file already when the record is written; without
\* writeResumeInformation no step creates or changes the resume file.
C23_SavedAtBoundary ==
    /\ (writeResumeInformation /\ pc = "loop" /\ SweepsOfRun > 0) =>
            /\ resumeExists
            /\ resumeFile = ResumeRecord(mh)
            /\ resumeFile[2] = mh.iteration_
    /\ (pc \in {"save", "saving"}) =>
            /\ SweepsOfRun > 0
            /\ Len(chainFile) = origin.rows + SweepsOfRun
C23_FileUntouched ==
    ~writeResumeInformation => UNCHANGED <<resumeExists, resumeFile>>
C23_SavedAfterEverySweep == []C23_SavedAtBoundary /\ [][C23_FileUntouched]_vars

\* The second sweep of a run with writeResumeInformation has been saved.
C23_Witness ==
    /\ writeResumeInformation
    /\ pc = "loop"
    /\ SweepsOfRun = 2
    /\ resumeFile = ResumeRecord(mh)
    /\ mh.paramSum_ # ZeroVec

\* C24: when the resume file cannot be opened, the save of a sweep changes
\* neither the object nor the counters nor the resume file, ends in no
\* error, and leaves the run at the sweep boundary with the chain file that
\* a save that succeeds leaves.
C24_FailedSaveStep ==
    (pc = "save" /\ ~CanOpen("resume") /\ pc' # "idle") =>
        /\ pc' = "loop"
        /\ mh' = mh /\ accepted' = accepted /\ loc' = loc
        /\ chainFile' = Reopen(mh.iteration_, chainFile)
        /\ UNCHANGED <<resumeExists, resumeFile>>
C24_NoFatal ==
    (cannotOpen = {"resume"} /\ calculatePrior(starting_) # Zero) => pc # "fatal"
C24_FailedSaveIsNoOp == []C24_NoFatal /\ [][C24_FailedSaveStep]_vars

\* A run whose saves cannot open the resume file has come to its end after
\* MinChain sweeps, all of them in the chain file.
C24_Witness ==
    /\ cannotOpen = {"resume"}
    /\ writeResumeInformation
    /\ pc = "done"
    /\ ~origin.resumed
    /\ Len(chainFile) = MinChain
    /\ ~resumeExists

\* C25: a run for which the chain file or the paramnames file cannot be
\* opened ends in a fatal error before its first sweep: it never comes to
\* the loop, and no step of it writes the chain file or the resume file.
C25_NeverRuns ==
    (~CanOpen("chain") \/ ~CanOpen("names")) =>
        /\ pc \in {"idle", "resume", "fatal"}
        /\ pc = "resume" => CanOpen("names")
C25_WritesNothing ==
    (~CanOpen("chain") \/ ~CanOpen("names")) =>
        /\ UNCHANGED <<chainFile, resumeExists, resumeFile>>
        /\ pc = "resume" => pc' \in {"fatal", "idle"}
        /\ (pc = "idle" /\ ~CanOpen("names") /\ pc' # "idle") => pc' = "fatal"
C25_OpenFailureAborts == []C25_NeverRuns /\ [][C25_WritesNothing]_vars

\* A run has ended in the fatal error of the chain file, over the resume
\* file of an earlier run.
C25_Witness ==
    /\ cannotOpen = {"chain"}
    /\ pc = "fatal"
    /\ resumeExists
    /\ namesFile = ParamNamesLines(paramNames_)
    /\ Len(chainFile) = 1

\* Parameter i in row k of the chain file, row 0 being the starting vector.
FileParam(k, i) == RowParam(chainFile, k, starting_, i)

\* C26: at every sweep boundary the three sums of every parameter are the
\* sums over the rows of the chain file, which are the rows written since
\* the last fresh start: of the values, of their squares, and of the
\* products of the value of each row with the value of the row before it
\* (the starting value for the first row).
C26_SumsOverRows ==
    AtBoundary =>
        LET n == Len(chainFile)
        IN  \A i \in Idx :
                /\ mh.paramSum_[i] = SumTo([k \in 1..n |-> FileParam(k, i)], n)
                /\ mh.paramSquaredSum_[i] =
                        SumTo([k \in 1..n |-> FileParam(k, i) * FileParam(k, i)], n)
                /\ mh.corSum_[i] =
                        SumTo([k \in 1..n |-> FileParam(k, i) * FileParam(k - 1, i)], n)

\* C27: whatever the file roots and the interleaving, nothing in the chain
\* file or the resume file of the chain of a process was written by another
\* process, and the object of a process holds nothing read from what
\* another process wrote.
C27_ChainsShareNothing ==
    \A p \in 1..NChains :
        /\ \A f \in {ResumeFileName(chains[p].fileRoot_),
                      ChainFileName(chains[p].fileRoot_)} :
                chains[p].pc # "idle" =>
                    \A k \in 1..Len(rootFiles[f]) : rootFiles[f][k].by = p
        /\ chains[p].from \in {0, p}


\* C28: the k-th call of getCommTag on a process returns 1000 + 10*P*k, so
\* the tags a process gets are strictly increasing; the k-th call returns
\* the same tag on every process; and no process gets its k-th tag before
\* every process has entered its k-th call (the barrier comes first).
C28_TagsIncreaseAndAgree ==
    \A p \in Procs :
        /\ \A k \in 1..Len(mpi[p].returned) :
              /\ mpi[p].returned[k] = 1000 + 10 * Cardinality(Procs) * k
              /\ \A j \in 1..(k - 1) : mpi[p].returned[j] < mpi[p].returned[k]
              /\ \A q \in Procs :
                    /\ mpi[q].entered >= k
                    /\ k <= Len(mpi[q].returned) =>
                          mpi[q].returned[k] = mpi[p].returned[k]
        /\ mpi[p].commTag_ = 1000 + 10 * Cardinality(Procs) * Len(mpi[p].returned)

\* Several processes have each made several calls.
C28_Witness ==
    /\ Cardinality(Procs) > 1
    /\ \A p \in Procs : Len(mpi[p].returned) >= 2

\* The value of the k-th std::rand() after std::srand(seed) when nothing
\* else in the process uses std::rand.
RECURSIVE StateAlone(_, _)
StateAlone(seed, k) ==
    IF k = 0 THEN srand(seed) ELSE RandAdvance(StateAlone(seed, k - 1))
DrawAlone(seed, k) == RandValue(StateAlone(seed, k))

\* C29: the uniform draws an object constructed with a non-zero seed uses
\* are the draws it uses when it is the only object of the process, whatever
\* other objects are constructed or run in the process.
C29_DrawsAsIfAlone ==
    \A e \in 1..NEngines :
        \A k \in 1..Len(engines[e].uniform) :
            engines[e].uniform[k] = DrawAlone(engines[e].seed_, k)

\* The columns of a chain-file row, as writeChainElement puts them on the
\* line.
RowColumns(row) == <<row[1], row[2]>> \o [i \in Idx |-> row[3][i]]

\* A row of N + 2 columns: the count 1, the likelihood value of the row's
\* vector, the N parameter values.
C30_RowShape ==
    \A k \in 1..Len(chainFile) :
        /\ Len(RowColumns(chainFile[k])) = NPar + 2
        /\ chainFile[k][1] = 1
        /\ chainFile[k][2] = LikeCalculate(chainFile[k][3])

C31_RunStops == Running ~> (pc = "done")

\* A run that has made a sweep has no more iterations than the
\* maxChainLength_ in effect (the argument of a fresh run, the checkpointed
\* value of a resumed one).
C31_StopsByMaxLength ==
    (Running /\ SweepsOfRun > 0) => mh.iteration_ <= mh.maxChainLength_

\* C31: every run terminates, after finitely many sweeps, at the latest when
\* the iteration count reaches the max chain length in effect.
C31_EveryRunTerminatesByMaxLength == []C31_StopsByMaxLength /\ C31_RunStops

\* The first block of a sweep is block 1.
C33_FirstBlock == (pc = "loop" /\ pc' = "propose") => loc'.i = 1

\* The candidate of block loc.i is made from the vector current_ holds when
\* the block's turn comes, and differs from it at the indices of the block
\* only, by samplingWidth_[j] times a normal draw.
C33_CandidateFromCurrent ==
    (pc = "propose" /\ pc' = "decide") =>
        /\ loc'.i = loc.i
        /\ loc'.currentOld = mh.current_
        /\ \A j \in Idx :
              IF j \in BlockIdx(blocks_, loc.i)
              THEN \E z \in Steps :
                        (mh'.current_[j] - mh.current_[j]) * samplingWidth_[j][2]
                            = z * samplingWidth_[j][1]
              ELSE mh'.current_[j] = mh.current_[j]

\* The decision of block i (the run is not killed there) leaves the candidate
\* or the vector before it, and the next block is block i + 1, whose turn
\* comes with that vector.
C33_NextBlockAfterDecision ==
    (pc = "decide" /\ pc' # "idle") =>
        /\ mh'.current_ = (IF Accepts(loc.q, loc.p) THEN mh.current_ ELSE loc.currentOld)
        /\ IF loc.i < Len(blocks_)
           THEN pc' = "propose" /\ loc'.i = loc.i + 1
           ELSE pc' = "row"

\* C33: within a sweep the blocks are processed in block order, and the
\* candidate of block i is generated from the vector that the decision of
\* block i - 1 left, changing the indices of block i only, each by
\* samplingWidth_[j] times the normal draw.
C33_BlocksInOrderFromLastDecision ==
    [][/\ C33_FirstBlock
       /\ C33_CandidateFromCurrent
       /\ C33_NextBlockAfterDecision]_vars

\* The candidate of block 2 has been made after block 1 accepted its own:
\* the vector it is made from is not the vector the sweep started with.
C33_Witness ==
    /\ pc = "decide"
    /\ loc.i = 2
    /\ loc.currentOld # mh.prev_
    /\ externalProposal_ = NULL

\* The vector v lies within [min, max] of every parameter.
WithinPriors(v) == \A j \in Idx : v[j] >= param1_[j] /\ v[j] <= param2_[j]

\* C34: when the starting vector has a non-zero prior density, currentPrior_
\* is non-zero in every state of a run, and every parameter lies within its
\* [min, max] in the object at every sweep boundary and in every chain row.
C34_PriorNeverZero ==
    (Running /\ calculatePrior(starting_) # Zero) =>
        /\ pc \in {"loop", "propose", "row", "save", "saving", "done"} =>
              mh.currentPrior_ # Zero
        /\ AtBoundary => WithinPriors(mh.current_)
        /\ \A k \in 1..Len(chainFile) : WithinPriors(chainFile[k][3])

\* currentLike_ and currentPrior_ of s are the likelihood and the prior at
\* current_ of s.
LikeAndPriorOfCurrent(s) ==
    /\ s.currentLike_ = LikeCalculate(s.current_)
    /\ s.currentPrior_ = calculatePrior(s.current_)

\* C35: at every sweep boundary, in every chain row and in every complete
\* checkpoint on disk, currentLike_ is the likelihood at the current vector
\* and currentPrior_ is the prior at the current vector.
C35_LikeAndPriorMatchCurrent ==
    /\ AtBoundary => LikeAndPriorOfCurrent(mh)
    /\ \A k \in 1..Len(chainFile) : chainFile[k][2] = LikeCalculate(chainFile[k][3])
    /\ OnDisk.ok => LikeAndPriorOfCurrent(OnDisk.st)

\* A sweep with an accepted and a rejected block update has ended and its
\* checkpoint is on disk.
C35_Witness ==
    /\ AtBoundary
    /\ mh.iteration_ >= 1
    /\ OnDisk.ok
    /\ OnDisk.st = mh
    /\ \E b \in 1..Len(blocks_) : accepted[b] >= 1
    /\ \E b \in 1..Len(blocks_) : accepted[b] < mh.iteration_

\* The sweeps of the chain in which the candidate of block b was accepted:
\* a candidate differs from the vector it is made from at every index of
\* its block, so these are the rows that differ from the row before them
\* (the starting vector for the first row) within the block.
AcceptedSweeps(b) ==
    {k \in 1..Len(chainFile) :
        \E j \in BlockIdx(blocks_, b) : FileParam(k, j) # FileParam(k - 1, j)}

\* The acceptance rates are put on the screen: at the end of run, and in
\* the loop after every FlushEvery-th iteration.
RatesReported ==
    \/ pc = "done"
    \/ pc = "loop" /\ SweepsOfRun > 0 /\ mh.iteration_ % FlushEvery = 0

\* C36: the acceptance rate reported for block b, accepted[b] / iteration_,
\* is the number of sweeps of the chain in which the candidate of block b
\* was accepted, divided by the iteration count, and lies in [0, 1]; also
\* in a run that resumed from a checkpoint.
C36_RateIsAcceptedSweepsOfChain ==
    RatesReported =>
        \A b \in 1..Len(blocks_) :
            /\ accepted[b] = Cardinality(AcceptedSweeps(b))
            /\ accepted[b] >= 0
            /\ accepted[b] <= mh.iteration_

\* The same for the runs that started fresh.
C36_FreshRuns == ~origin.resumed => C36_RateIsAcceptedSweepsOfChain

\* The max chain length in effect in a resumed run is the one of the
\* checkpoint, whatever the argument of run.
C37_CheckpointedMaxInEffect ==
    (Running /\ origin.resumed) =>
        /\ origin.st.maxChainLength_ = origin.rec[1]
        /\ mh.maxChainLength_ = origin.rec[1]

\* A run resumed from a checkpoint whose state satisfies the stop rule makes
\* no sweep and appends no row.
C37_NoSweepWhenStopped ==
    (Running /\ origin.resumed
        /\ stop(origin.st.iteration_, origin.st.maxChainLength_, origin.st.paramSum_,
                origin.st.paramSquaredSum_, origin.st.corSum_, accuracy_)) =>
        /\ SweepsOfRun = 0
        /\ Len(chainFile) = origin.rows
        /\ pc \in {"loop", "done"}

\* A resumed run makes a sweep only from an iteration count below the
\* checkpointed max chain length.
C37_ResumedStopsByCheckpointedMax ==
    (Running /\ origin.resumed /\ SweepsOfRun > 0) =>
        mh.iteration_ <= origin.rec[1]

\* C37: a run that resumes from a valid checkpoint written with max chain
\* length M has M in effect, not its argument: it stops at the latest when
\* the iteration count reaches M, and makes no sweep and appends no row
\* when the checkpointed state satisfies the stop rule.
C37_ResumeIgnoresArgument ==
    /\ C37_CheckpointedMaxInEffect
    /\ C37_ResumedStopsByCheckpointedMax
    /\ C37_NoSweepWhenStopped

\* C38: a call of setParam or setParamGauss that ends in an error leaves
\* the configuration as it was before the call: the name, the prior kind,
\* the prior parameters, the starting value, the sampling width and the
\* accuracy of every parameter.
C38_RejectedCallChangesNothing ==
    [][(pc = "idle" /\ pc' = "fatal" /\ call'.op \in {"setParam", "setParamGauss"})
            => Members' = Members]_vars

\* The same for the calls rejected by the first two tests (the index, and
\* max > min or sigma > 0).
C38_RejectedAtEntry ==
    [][(/\ pc = "idle" /\ pc' = "fatal"
        /\ call'.op \in {"setParam", "setParamGauss"}
        /\ \/ call'.i \notin Idx
           \/ call'.op = "setParam" /\ call'.max <= call'.min
           \/ call'.op = "setParamGauss" /\ call'.sigma <= 0)
            => Members' = Members]_vars

\* The matrix of the file is symmetric: as many rows as columns, and every
\* element equal to its transpose.
FileSymmetric(file) ==
    /\ file.rows = file.cols
    /\ \A i \in 0..(file.rows - 1) : \A j \in 0..(file.rows - 1) :
          FileElem(file, i, j) = FileElem(file, j, i)

\* readFromTextFile throws for a header with rows # cols.
C39_ThrowsForRowsNotCols ==
    (matrix.pc # "constructed" /\ matrix.file.rows # matrix.file.cols)
        => matrix.pc = "thrown"

\* C39: readFromTextFile raises an error for every text file whose matrix
\* is not symmetric (rows # cols in the header, or an element that differs
\* from its transpose): no such file is read without an error.
C39_NonSymmetricFileThrows ==
    (matrix.pc # "constructed" /\ ~FileSymmetric(matrix.file))
        => matrix.pc = "thrown"

\* The final vector of the sweep before the one that is being made: the
\* vector of the last row when the run has made a sweep, else the vector
\* the run started with (the starting vector, or the current vector of the
\* checkpoint).
SweepBefore ==
    IF SweepsOfRun > 0 THEN chainFile[Len(chainFile)][3] ELSE origin.st.current_

\* prev_ is current_ at every sweep boundary and in every complete
\* checkpoint, the starting vector at a fresh start, and during a sweep the
\* final vector of the sweep before.
C40_PrevAtBoundary ==
    /\ AtBoundary => mh.prev_ = mh.current_
    /\ OnDisk.ok => OnDisk.st.prev_ = OnDisk.st.current_
    /\ (Running /\ ~origin.resumed) => origin.st.current_ = starting_
    /\ Running => mh.prev_ = SweepBefore

\* The lag-1 product that a sweep adds to corSum_ is the product of its
\* final vector with the final vector of the sweep before.
C40_LagProduct ==
    (pc = "row" /\ pc' # "idle") =>
        \A j \in Idx : mh'.corSum_[j] = mh.corSum_[j] + mh'.current_[j] * SweepBefore[j]

\* C40: at every sweep boundary prev_ = current_, every checkpoint stores a
\* prev_ equal to its current_, and the lag-1 product of a sweep pairs the
\* sweep's final vector with the final vector of the sweep before it (the
\* starting vector for the first sweep).
C40_PrevIsCurrentAtBoundary == []C40_PrevAtBoundary /\ [][C40_LagProduct]_vars

\* A second sweep has ended at a vector other than the one it started
\* from, and its checkpoint is on disk.
C40_Witness ==
    /\ pc = "loop"
    /\ SweepsOfRun >= 2
    /\ OnDisk.ok /\ OnDisk.st = mh
    /\ chainFile[Len(chainFile)][3] # chainFile[Len(chainFile) - 1][3]

====
